---- MODULE Spec2Model ----
(***************************************************************************)
(* Model of the API-collection execution engine                            *)
(* (backend/apps/api_testing/services/executor.py, models.py, views.py).   *)
(*                                                                         *)
(* One run is modelled: either APIExecutionService.execute_collection on   *)
(* a collection, or the single-endpoint run path of the views, both of     *)
(* which drive execute_with_retry / execute_single_api and finalize the    *)
(* ExecutionRun with mark_completed.  The HTTP server, the assertion data  *)
(* of a response and the faults of the persistence layer are the           *)
(* environment: they are drawn nondeterministically at the step that       *)
(* observes them.                                                          *)
(***************************************************************************)
EXTENDS Integers, Sequences, FiniteSets, TLC

\* ------------------------------------------------------------------ bounds
\* Largest number of active endpoints in the collection under run.
MaxEndpoints == 3

\* Largest retry_count configured on an endpoint.
MaxRetry == 2

\* ------------------------------------------------- ExecutionResult.Status
SUCCESS == "success"
FAILED == "failed"
ERROR == "error"
TIMEOUT == "timeout"
SKIPPED == "skipped"

\* ---------------------------------------------------- ExecutionRun.Status
PENDING == "pending"
RUNNING == "running"
COMPLETED == "completed"
RUN_FAILED == "failed"
PARTIALLY_FAILED == "partial_failure"

TerminalStatuses == {COMPLETED, RUN_FAILED, PARTIALLY_FAILED}

\* depends_on_id of an endpoint without a dependency (None).
NoDependency == 0

\* expected_status_code of an endpoint without a status expectation (None).
NoExpectedStatus == 0

\* ---------------------------------------------------------- environment
\* What one call of session.request (and the processing of its response)
\* can produce.  An exception is named by its type and by the base classes
\* it derives from (requests' Timeout, ConnectionError and RequestException,
\* and Exception); a response by its status code and by the
\* verdict of the endpoint's expected_response_contains checks on its body.
ExceptionTypes ==
    { [name |-> "ReadTimeout",      isTimeout |-> TRUE,  isConnection |-> FALSE, isRequest |-> TRUE,  isException |-> TRUE],
      [name |-> "ConnectTimeout",   isTimeout |-> TRUE,  isConnection |-> TRUE,  isRequest |-> TRUE,  isException |-> TRUE],
      [name |-> "ConnectionError",  isTimeout |-> FALSE, isConnection |-> TRUE,  isRequest |-> TRUE,  isException |-> TRUE],
      [name |-> "SSLError",         isTimeout |-> FALSE, isConnection |-> TRUE,  isRequest |-> TRUE,  isException |-> TRUE],
      [name |-> "TooManyRedirects", isTimeout |-> FALSE, isConnection |-> FALSE, isRequest |-> TRUE,  isException |-> TRUE],
      [name |-> "ValueError",       isTimeout |-> FALSE, isConnection |-> FALSE, isRequest |-> FALSE, isException |-> TRUE] }

NoException ==
    [name |-> "", isTimeout |-> FALSE, isConnection |-> FALSE, isRequest |-> FALSE,
     isException |-> FALSE]

StatusCodes == {200, 404}

\* The expected_status_code settings drawn for an endpoint: none, or a code
\* the server can answer with.
ExpectedStatusCodes == {NoExpectedStatus, 404}

\* An exception of session.request leaves no response (status_code 0); an
\* exception that is no RequestException can also be raised after the
\* response was received, while its body is extracted from or validated.
Replies ==
    [exc : ExceptionTypes, status_code : {0}, contains_ok : {TRUE}]
    \cup [exc : {e \in ExceptionTypes : ~e.isRequest}, status_code : StatusCodes,
          contains_ok : {TRUE}]
    \cup [exc : {NoException}, status_code : StatusCodes, contains_ok : BOOLEAN]

\* ----------------------------------------------------------- the state
VARIABLES
    endpoints,            \* list(collection.get_ordered_endpoints())
    credential,           \* TRUE iff the run has an effective credential
    path,                 \* "collection" (execute_collection) or "single" (views run)
    pc,                   \* position of the thread of control
    idx,                  \* position in endpoints of the endpoint being processed
    attempt,              \* loop variable of execute_with_retry
    result_data,          \* ExecutionResultData of the latest attempt
    last_reply,           \* what the latest attempt met (history of the environment)
    attempts,             \* number of execute_single_api calls for this endpoint
    sleeps,               \* number of time.sleep calls for this endpoint
    executed,             \* ids of the endpoints an HTTP attempt was made for
    successful_count,
    failed_count,
    skipped_count,
    completed_endpoints,
    failed_endpoints,
    results,              \* ExecutionResult rows of the run, in creation order
    execution_run,        \* the ExecutionRun object held by the orchestrator
    db_run,               \* the ExecutionRun row in the database
    raised,               \* exception the thread of control is unwinding with
    logged_error,         \* exception logged by execute_collection's except clause
    mark_used_calls       \* number of credential.mark_used() calls that saved

\* The state of one run (execute_collection or the single-endpoint run).
orchestrator_vars ==
    << endpoints, credential, path, pc, idx, attempt, result_data,
       last_reply, attempts, sleeps, executed, successful_count,
       failed_count, skipped_count, completed_endpoints, failed_endpoints,
       results, execution_run, db_run, raised, logged_error,
       mark_used_calls >>

\* The state of two calls of execute_collection on the one api_executor,
\* with the variable context of each.
VARIABLES
    session,              \* api_executor._session
    context,              \* the ExecutionContext objects, by the slot that holds them
    call_input,           \* per call: environment_variables of the collection, overrides
    call_pc,              \* per call: position of its thread of control
    call_idx,             \* per call: position in the endpoints of its collection
    call_resolved,        \* per call: what the placeholder of each name resolved to
                          \* when the request of the current endpoint was built
    call_extracted,       \* per call: the non-null value last extracted for each
                          \* name by one of its own endpoints (history)
    result_rows           \* the ExecutionResult table

context_vars ==
    << session, context, call_input, call_pc, call_idx, call_resolved,
       call_extracted, result_rows >>

\* The state of one execute_single_api call, as far as the request it
\* builds and the record it returns are concerned.
VARIABLES
    req_endpoint,         \* the APIEndpoint: headers, query_params, body_type
    req_credential,       \* the AuthCredential, or NoCredential
    req_pc,               \* "build", "sent" or "returned"
    request,              \* what session.request was called with, and what it met
    result                \* the ExecutionResultData of the call

request_vars == << req_endpoint, req_credential, req_pc, request, result >>

\* The state of one build_url call, as far as variable substitution is
\* concerned: the url template and the query_params of the endpoint, the
\* context, and what substitution made of them.
VARIABLES
    sub_pieces,           \* the pieces endpoint.url was written from
    sub_data,             \* endpoint.query_params
    sub_context,          \* the ExecutionContext of the call
    sub_pc,               \* "idle", "start", "url" or "done"
    sub_url,              \* substitute_variables(endpoint.url, context)
    sub_params            \* substitute_in_dict(endpoint.query_params, context)

substitute_vars ==
    << sub_pieces, sub_data, sub_context, sub_pc, sub_url, sub_params >>

\* The state of one execute_single_api call from the reply of the server
\* on: what the call was given, its context and the record it returns.
VARIABLES
    resp_input,           \* the endpoint, the reply and the context at the start
    resp_context,         \* the ExecutionContext of the call
    resp_pc,              \* "idle", "sent", "extract", "validate" or "returned"
    resp_result           \* the ExecutionResultData of the call

response_vars == << resp_input, resp_context, resp_pc, resp_result >>

\* The private chat rooms and the get_or_create_private_room calls of two
\* concurrent requests.
VARIABLES
    chat_rooms,           \* the committed private ChatRoom rows with their participants
    chat_call,            \* per request: position, arguments and what it returned
    chat_count            \* number of calls made so far

chat_vars == << chat_rooms, chat_call, chat_count >>

\* The ScheduledRun table and the clock of process_scheduled_runs.
VARIABLES
    schedules,            \* per schedule: is_active, next_run, last_run, runs triggered
    now                   \* timezone.now()

scheduler_vars == << schedules, now >>

vars ==
    << orchestrator_vars, context_vars, request_vars, substitute_vars,
       response_vars, chat_vars, scheduler_vars >>

\* ExecutionResultData() before any attempt (dataclass defaults).
NoResult ==
    [status |-> "", error_type |-> "", response_status_code |-> 0,
     assertions_passed |-> TRUE, retry_attempt |-> 0]

\* No attempt made yet.
NoReply == [exc |-> NoException, status_code |-> 0, contains_ok |-> TRUE]

\* An exception no except clause of execute_single_api matches leaves the
\* function instead of a result.
Uncaught == [NoResult EXCEPT !.status = "uncaught"]

\* No ExecutionRun object yet.
NoRun ==
    [status |-> "absent", total_apis |-> 0, successful_count |-> 0,
     failed_count |-> 0, skipped_count |-> 0, started_at |-> FALSE,
     completed_at |-> FALSE]

endpoint == endpoints[idx]

\* ------------------------------------------------ ExecutionRun (models.py)
\* ExecutionRun.objects.create(total_apis=n): a row and an object in status
\* pending with all counters at their default 0.
NewRun(n) ==
    [status |-> PENDING, total_apis |-> n, successful_count |-> 0,
     failed_count |-> 0, skipped_count |-> 0, started_at |-> FALSE,
     completed_at |-> FALSE]

\* ExecutionRun.mark_started, on the object.
mark_started(run) == [run EXCEPT !.status = RUNNING, !.started_at = TRUE]

\* Mutant of mark_completed: the two tests are made in the other order.
mark_completed_SuccessTestFirst(run) ==
    [run EXCEPT !.completed_at = TRUE,
                !.status = IF run.successful_count = 0 THEN RUN_FAILED
                           ELSE IF run.failed_count = 0 THEN COMPLETED
                           ELSE PARTIALLY_FAILED]

\* ExecutionRun.mark_completed, on the object: the status is derived from
\* the object's counters.
mark_completed(run) ==
    [run EXCEPT !.completed_at = TRUE,
                !.status = IF run.failed_count = 0 THEN COMPLETED
                           ELSE IF run.successful_count = 0 THEN RUN_FAILED
                           ELSE PARTIALLY_FAILED]

\* self.save(update_fields=['status', 'started_at', 'updated_at']) and
\* self.save(update_fields=['status', 'completed_at', 'updated_at']): only
\* the named columns of the row are written from the object.  (One
\* operator serves both: started_at is not changed between the two saves
\* and completed_at is not set before the first.)
save_status_fields(row, run) ==
    [row EXCEPT !.status = run.status, !.started_at = run.started_at,
                !.completed_at = run.completed_at]

\* ------------------------------------------ validate_response (executor)
\* The status assertion is computed; the verdicts of the
\* expected_response_contains assertions depend on the response body and
\* are the reply's contains_ok.
validate_response(ep, status_code, contains_ok) ==
    LET status_ok == IF ep.expected_status_code # NoExpectedStatus
                     THEN status_code = ep.expected_status_code
                     ELSE TRUE
    IN  status_ok /\ contains_ok

\* ----------------------------------------- execute_single_api (executor)
\* Mutant of execute_single_api: the status is taken from the assertion
\* verdict alone, without the test of the status code.
execute_single_api_VerdictOnly(ep, reply, retry_attempt) ==
    LET base == [NoResult EXCEPT !.retry_attempt = retry_attempt,
                                 !.response_status_code = reply.status_code] IN
    IF reply.exc = NoException THEN
        LET passed == validate_response(ep, reply.status_code, reply.contains_ok) IN
        [base EXCEPT !.assertions_passed = passed,
                     !.status = IF ~passed THEN FAILED ELSE SUCCESS]
    ELSE IF reply.exc.isTimeout THEN
        [base EXCEPT !.status = TIMEOUT, !.error_type = "Timeout"]
    ELSE IF reply.exc.isConnection THEN
        [base EXCEPT !.status = ERROR, !.error_type = "ConnectionError"]
    ELSE IF reply.exc.isRequest THEN
        [base EXCEPT !.status = ERROR, !.error_type = reply.exc.name]
    ELSE IF reply.exc.isException THEN
        [base EXCEPT !.status = ERROR, !.error_type = reply.exc.name]
    ELSE Uncaught

\* Mutant of execute_single_api: the last clause, except Exception, is
\* missing, so only requests' exceptions are turned into an outcome.
execute_single_api_NoCatchAll(ep, reply, retry_attempt) ==
    LET base == [NoResult EXCEPT !.retry_attempt = retry_attempt,
                                 !.response_status_code = reply.status_code] IN
    IF reply.exc = NoException THEN
        LET passed == validate_response(ep, reply.status_code, reply.contains_ok) IN
        [base EXCEPT !.assertions_passed = passed,
                     !.status = IF reply.status_code >= 400 THEN FAILED
                                ELSE IF ~passed THEN FAILED
                                ELSE SUCCESS]
    ELSE IF reply.exc.isTimeout THEN
        [base EXCEPT !.status = TIMEOUT, !.error_type = "Timeout"]
    ELSE IF reply.exc.isConnection THEN
        [base EXCEPT !.status = ERROR, !.error_type = "ConnectionError"]
    ELSE IF reply.exc.isRequest THEN
        [base EXCEPT !.status = ERROR, !.error_type = reply.exc.name]
    ELSE Uncaught

\* One attempt: the try body up to the status determination, or the first
\* matching except clause, in the order the clauses are written.
execute_single_api(ep, reply, retry_attempt) ==
    LET base == [NoResult EXCEPT !.retry_attempt = retry_attempt,
                                 !.response_status_code = reply.status_code] IN
    IF reply.exc = NoException THEN
        LET passed == validate_response(ep, reply.status_code, reply.contains_ok) IN
        [base EXCEPT !.assertions_passed = passed,
                     !.status = IF reply.status_code >= 400 THEN FAILED
                                ELSE IF ~passed THEN FAILED
                                ELSE SUCCESS]
    ELSE IF reply.exc.isTimeout THEN
        [base EXCEPT !.status = TIMEOUT, !.error_type = "Timeout"]
    ELSE IF reply.exc.isConnection THEN
        [base EXCEPT !.status = ERROR, !.error_type = "ConnectionError"]
    ELSE IF reply.exc.isRequest THEN
        [base EXCEPT !.status = ERROR, !.error_type = reply.exc.name]
    ELSE IF reply.exc.isException THEN
        [base EXCEPT !.status = ERROR, !.error_type = reply.exc.name]
    ELSE Uncaught

\* Mutant of assign_result: the result of the first attempt is kept.
assign_result_KeepFirst(previous, latest) ==
    IF previous = NoResult THEN latest ELSE previous

\* result = self.execute_single_api(...) in the loop of execute_with_retry:
\* the local holds the result of the latest attempt.
assign_result(previous, latest) == latest

\* max_retries = endpoint.retry_count or 0
max_retries(ep) == ep.retry_count

\* Mutant of retry_after: the last-attempt test is off by one.
retry_after_OneTooMany(ep, res, att) ==
    IF res.status = SUCCESS THEN FALSE
    ELSE IF att > max_retries(ep) THEN FALSE
    ELSE res.status \in {TIMEOUT, ERROR}

\* Mutant of retry_after: every outcome other than success is retried.
retry_after_AnyFailure(ep, res, att) ==
    IF res.status = SUCCESS THEN FALSE
    ELSE IF att >= max_retries(ep) THEN FALSE
    ELSE TRUE

\* The decision execute_with_retry takes after an attempt: TRUE to sleep and
\* go round the loop again, FALSE to return the attempt's result.
retry_after(ep, res, att) ==
    IF res.status = SUCCESS THEN FALSE
    ELSE IF att >= max_retries(ep) THEN FALSE
    ELSE res.status \in {TIMEOUT, ERROR}

\* ------------------------------------------------- ExecutionResult rows
\* Mutant of execution_result_row: every saved outcome is a success.
execution_result_row_AlwaysSuccess(ep, res) ==
    [api_endpoint |-> ep.id, status |-> SUCCESS, error_message |-> ""]

\* _save_execution_result: the columns api_endpoint, status and
\* error_message of the created row (error_message is "" for the outcomes
\* that carry no skip reason; its text is not modelled).
execution_result_row(ep, res) ==
    [api_endpoint |-> ep.id, status |-> res.status, error_message |-> ""]

\* _save_skipped_result
skipped_result_row(ep, reason) ==
    [api_endpoint |-> ep.id, status |-> SKIPPED, error_message |-> reason]

\* Mutant of skip_reason: the outer test "if endpoint.depends_on_id" is
\* missing, so an endpoint without a dependency is looked up in the sets.
skip_reason_NoDependencyTest(ep, completed, failed) ==
    IF ep.depends_on_id \in failed THEN "Skipped: dependency failed"
    ELSE IF ep.depends_on_id \notin completed THEN "Skipped: dependency not executed"
    ELSE ""

\* Mutant of skip_reason: only a dependency in the failed-set causes a skip.
skip_reason_FailedOnly(ep, completed, failed) ==
    IF ep.depends_on_id # NoDependency THEN
        IF ep.depends_on_id \in failed THEN "Skipped: dependency failed"
        ELSE ""
    ELSE ""

\* Mutant of skip_reason: a dependency that has not succeeded is reported
\* as failed, whether it ran or not.
skip_reason_OneReason(ep, completed, failed) ==
    IF ep.depends_on_id # NoDependency THEN
        IF ep.depends_on_id \notin completed THEN "Skipped: dependency failed"
        ELSE ""
    ELSE ""

\* The dependency check at the top of the loop body: the reason for a skip,
\* or "" when the endpoint is to be executed.
skip_reason(ep, completed, failed) ==
    IF ep.depends_on_id # NoDependency THEN
        IF ep.depends_on_id \in failed THEN "Skipped: dependency failed"
        ELSE IF ep.depends_on_id \notin completed THEN "Skipped: dependency not executed"
        ELSE ""
    ELSE ""

\* --------------------------------------- ExecutionContext (executor.py)
\* Largest number of endpoints in the collection of each of the two calls.
MaxCallEndpoints == 3

\* The two calls of execute_collection that are under way together.
Runs == {1, 2}

\* The variable names used in placeholders and in extract_variables.
Names == {"token", "id"}

\* Python's None as a value of a variable.
None == "<None>"

\* A dict is a function on the set of its keys.
Dicts(keys, values) == UNION { [d -> values] : d \in SUBSET keys }

EmptyDict == [k \in {} |-> None]

\* d.update(e)
update(d, e) ==
    [k \in DOMAIN d \cup DOMAIN e |-> IF k \in DOMAIN e THEN e[k] ELSE d[k]]

\* ExecutionContext(environment=...): no variable extracted yet.
ExecutionContext(environment) ==
    [environment |-> environment, extracted_variables |-> EmptyDict]

\* No ExecutionContext object in the slot.
NoContext == ExecutionContext(EmptyDict)

\* Mutant of get_variable: the environment is looked up first.
get_variable_EnvironmentFirst(ctx, key) ==
    IF key \in DOMAIN ctx.environment THEN ctx.environment[key]
    ELSE IF key \in DOMAIN ctx.extracted_variables THEN ctx.extracted_variables[key]
    ELSE None

\* ExecutionContext.get_variable: extracted_variables[key] if the key is in
\* it, otherwise environment.get(key), which is None for a missing key.
get_variable(ctx, key) ==
    IF key \in DOMAIN ctx.extracted_variables THEN ctx.extracted_variables[key]
    ELSE IF key \in DOMAIN ctx.environment THEN ctx.environment[key]
    ELSE None

\* ExecutionContext.set_variable
set_variable(ctx, key, value) ==
    [ctx EXCEPT !.extracted_variables = update(@, [k \in {key} |-> value])]

\* ExecutionContext.merge_environment
merge_environment(ctx, env) ==
    [ctx EXCEPT !.environment = update(@, env)]

\* The text of the placeholder of a name.
Placeholder(var_name) == "{{" \o var_name \o "}}"

\* replace_var of substitute_variables, on the match of one placeholder: the
\* string form of the variable's value, or the matched text when the value
\* is None.  (The values of this model are strings, their own string form.)
replace_var(ctx, var_name) ==
    LET value == get_variable(ctx, var_name) IN
    IF value # None THEN value ELSE Placeholder(var_name)

\* extract_variables_from_response: extracted maps each name of the
\* endpoint's extract_variables to what extract_json_path found for it; the
\* values that are not None are set in the context.
extract_variables_from_response(ctx, extracted) ==
    [ctx EXCEPT !.extracted_variables =
        update(@, [k \in {n \in DOMAIN extracted : extracted[n] # None}
                     |-> extracted[k]])]

\* Mutant of context_slot: the context is kept on the service object, which
\* all calls share.
context_slot_OnService(r) == 1

\* The context is a local variable of execute_collection: each call holds
\* its own object.
context_slot(r) == r

\* ------------------------------- credentials, requests and header masking
\* Largest number of headers configured on the endpoint of the call.
MaxHeaders == 1

\* The longest url template, in pieces.
MaxPieces == 3

\* The longest json path, in parts.
MaxPath == 2

\* Largest number of get_or_create_private_room calls.
MaxChatCalls == 3

\* The latest time of the clock, and the largest number of runs triggered
\* for one schedule.
MaxTime == 2

MaxRuns == 2

\* A header value, a query parameter value and a message are sequences of
\* pieces of text; the pieces below are the decrypted secrets of a
\* credential (the last one in its base64 form).
SecretMaterial ==
    {"<token>", "<api_key>", "<access_token>", "<base64 username:password>"}

ContainsSecret(text) == \E i \in DOMAIN text : text[i] \in SecretMaterial

\* The header names of the model, each with its str.lower().
CaseVariants ==
    { << "Authorization", "authorization" >>, << "authorization", "authorization" >>,
      << "AUTHORIZATION", "authorization" >>,
      << "X-API-Key", "x-api-key" >>, << "x-api-key", "x-api-key" >>,
      << "Api-Key", "api-key" >>, << "Token", "token" >>,
      << "X-Auth-Token", "x-auth-token" >>,
      << "Cookie", "cookie" >>, << "COOKIE", "cookie" >>,
      << "Set-Cookie", "set-cookie" >>, << "set-cookie", "set-cookie" >>,
      << "X-Access-Token", "x-access-token" >>, << "X-Secret", "x-secret" >>,
      << "Accept", "accept" >>, << "Content-Type", "content-type" >>,
      << "content-type", "content-type" >>,
      << "X-Custom-Auth", "x-custom-auth" >>,
      << "X-Partner-Key", "x-partner-key" >> }

HeaderNames == { p[1] : p \in CaseVariants }

\* key.lower()
lower(key) == (CHOOSE p \in CaseVariants : p[1] = key)[2]

\* APIExecutionService.SENSITIVE_HEADERS
SENSITIVE_HEADERS ==
    {"authorization", "x-api-key", "api-key", "token", "x-auth-token",
     "cookie", "x-access-token", "x-secret"}

MASKED == << "***MASKED***" >>

\* mask_headers
mask_headers(headers) ==
    [key \in DOMAIN headers |->
        IF lower(key) \in SENSITIVE_HEADERS THEN MASKED ELSE headers[key]]

\* AuthCredential.AuthType
BEARER == "bearer"
BASIC == "basic"
API_KEY == "api_key"
API_KEY_HEADER == "api_key_header"
API_KEY_QUERY == "api_key_query"
OAUTH2 == "oauth2"
CUSTOM == "custom"
NONE == "none"

\* No credential is given to the call.
NoCredential ==
    [auth_type |-> "", header_name |-> "", header_prefix |-> "",
     key_name |-> None, decrypts |-> TRUE]

\* The credentials drawn for a call.  header_name and header_prefix are
\* fields of the credential ("" when not set); key_name is an entry of the
\* decrypted credentials (None when it has none); decrypts tells whether
\* get_credentials returns or raises.
AuthCredentials ==
    [auth_type : {BEARER, CUSTOM}, header_name : {"", "X-Custom-Auth", "X-Auth-Token"},
     header_prefix : {"", "Token"}, key_name : {None}, decrypts : BOOLEAN]
    \cup [auth_type : {API_KEY, API_KEY_HEADER, API_KEY_QUERY}, header_name : {""},
          header_prefix : {""}, key_name : {None, "X-Partner-Key"}, decrypts : BOOLEAN]
    \cup [auth_type : {BASIC, OAUTH2, NONE}, header_name : {""},
          header_prefix : {""}, key_name : {None}, decrypts : BOOLEAN]

\* What a builder hands back: its value, or the exception that left it.
Returned(value) == [raised |-> "", value |-> value]

Raised(exception) == [raised |-> exception, value |-> EmptyDict]

\* f"{prefix} {token}".strip(): the prefix and the token, with no piece for
\* an empty prefix.
prefixed(prefix, token) ==
    IF prefix = "" THEN << token >> ELSE << prefix, token >>

\* The header build_auth_headers makes of the decrypted credentials, by the
\* kind of the credential.
auth_header_of(cred) ==
    LET t == cred.auth_type
        header_name == IF cred.header_name # ""
                       THEN cred.header_name ELSE "Authorization"
    IN
    IF t = BEARER THEN
        [k \in {header_name} |->
            prefixed(IF cred.header_prefix # ""
                     THEN cred.header_prefix ELSE "Bearer", "<token>")]
    ELSE IF t = BASIC THEN
        [k \in {"Authorization"} |-> << "Basic", "<base64 username:password>" >>]
    ELSE IF t \in {API_KEY, API_KEY_HEADER} THEN
        [k \in {IF cred.key_name # None THEN cred.key_name ELSE "X-API-Key"} |->
            << "<api_key>" >>]
    ELSE IF t = OAUTH2 THEN
        [k \in {"Authorization"} |-> << "Bearer", "<access_token>" >>]
    ELSE IF t = CUSTOM THEN
        [k \in {header_name} |-> prefixed(cred.header_prefix, "<token>")]
    ELSE EmptyDict

\* Mutant of build_auth_headers: get_credentials is called outside the try
\* statement, so that a decryption failure leaves the builder.
build_auth_headers_NoTry(cred) ==
    IF cred = NoCredential THEN Returned(EmptyDict)
    ELSE IF ~cred.decrypts THEN Raised("InvalidToken")
    ELSE Returned(auth_header_of(cred))

\* build_auth_headers: the empty map without a credential and when
\* get_credentials raises; otherwise the header of the credential's kind.
build_auth_headers(cred) ==
    IF cred = NoCredential THEN Returned(EmptyDict)
    ELSE IF ~cred.decrypts THEN Returned(EmptyDict)
    ELSE Returned(auth_header_of(cred))

\* build_auth_query_params: a parameter for the api_key_query kind only; the
\* empty map when get_credentials raises.
build_auth_query_params(cred) ==
    IF cred = NoCredential THEN Returned(EmptyDict)
    ELSE IF cred.auth_type # API_KEY_QUERY THEN Returned(EmptyDict)
    ELSE IF ~cred.decrypts THEN Returned(EmptyDict)
    ELSE Returned([k \in {IF cred.key_name # None
                          THEN cred.key_name ELSE "api_key"} |->
             << "<api_key>" >>])

\* build_url: the query parameters of the URL (the endpoint's, then the
\* credential's) on the endpoint's address.
build_url(ep, cred) ==
    LET auth_params == build_auth_query_params(cred) IN
    IF auth_params.raised # "" THEN auth_params
    ELSE Returned(update(ep.query_params, auth_params.value))

\* build_headers: the endpoint's headers, the default Content-Type of the
\* body type unless that key is present, then the credential's headers.
build_headers(ep, cred) ==
    LET with_default ==
            IF ep.body_type = "json" /\ "Content-Type" \notin DOMAIN ep.headers
            THEN update(ep.headers,
                        [k \in {"Content-Type"} |-> << "application/json" >>])
            ELSE IF ep.body_type = "x-www-form-urlencoded"
                    /\ "Content-Type" \notin DOMAIN ep.headers
            THEN update(ep.headers,
                        [k \in {"Content-Type"} |->
                            << "application/x-www-form-urlencoded" >>])
            ELSE ep.headers
        auth_headers == build_auth_headers(cred)
    IN  IF auth_headers.raised # "" THEN auth_headers
        ELSE Returned(update(with_default, auth_headers.value))

\* The endpoints drawn for a call: at most MaxHeaders headers of any name,
\* one query parameter, a JSON body or none.
RequestEndpoints ==
    [ headers : { h \in Dicts(HeaderNames, {<< "plain" >>}) :
                    Cardinality(DOMAIN h) <= MaxHeaders },
      query_params : { [k \in {"page"} |-> << "1" >>] },
      body_type : {"json", "form-data", "x-www-form-urlencoded", "raw", "none"} ]

\* ExecutionResultData(): the fields of the record that describe the
\* request and the outcome.
NoRequestResult ==
    [status |-> SUCCESS, error_type |-> "", error_message |-> << >>,
     request_url |-> EmptyDict, request_headers |-> EmptyDict,
     request_body |-> << >>]

\* session.request has not been called.
NoRequest == [url |-> EmptyDict, headers |-> EmptyDict, reply |-> NoReply]

\* No execute_single_api call is under way.
RequestIdle ==
    /\ req_endpoint = [headers |-> EmptyDict, query_params |-> EmptyDict,
                       body_type |-> "none"]
    /\ req_credential = NoCredential
    /\ req_pc = "idle"
    /\ request = NoRequest
    /\ result = NoRequestResult

\* ------------------------------- APICollection.get_ordered_endpoints
\* The values sort_order takes in the endpoint tables drawn below.
SortOrders == {0, 1}

\* The endpoint tables of a collection: one row per id, with its is_active
\* flag, its sort_order and its created_at instant (no two rows are created
\* at the same instant).
EndpointTables ==
    UNION { { { [id |-> i, is_active |-> a[i], sort_order |-> so[i],
                 created_at |-> ca[i]] : i \in 1..n } :
                a \in [1..n -> BOOLEAN],
                so \in [1..n -> SortOrders],
                ca \in { f \in [1..n -> 1..n] :
                           \A i, j \in 1..n : i # j => f[i] # f[j] } }
            : n \in 0..MaxEndpoints }

\* Mutant of order_by: the rows are ordered by created_at alone.
RECURSIVE order_by_CreatedAtOnly(_)
order_by_CreatedAtOnly(rows) ==
    IF rows = {} THEN << >>
    ELSE LET first == CHOOSE r \in rows :
                          \A s \in rows : r.created_at <= s.created_at
         IN  << first >> \o order_by_CreatedAtOnly(rows \ {first})

\* order_by('sort_order', 'created_at'): ascending sort_order, rows of equal
\* sort_order by ascending created_at.
RECURSIVE order_by(_)
order_by(rows) ==
    IF rows = {} THEN << >>
    ELSE LET first == CHOOSE r \in rows :
                          \A s \in rows :
                              \/ r.sort_order < s.sort_order
                              \/ /\ r.sort_order = s.sort_order
                                 /\ r.created_at <= s.created_at
         IN  << first >> \o order_by(rows \ {first})

\* self.endpoints.filter(is_active=True).order_by('sort_order', 'created_at')
get_ordered_endpoints(rows) == order_by({r \in rows : r.is_active})

\* ------------------------------------------------- variable substitution
\* A text is a sequence of characters.  "a" stands for the word characters
\* (\w), "-" for the others apart from the braces.  A value substituted
\* into a text is one element of the result: the string form of the value.
WordChars == {"a"}

\* The names the placeholders of this model can carry.
TextNames == {"a", "aa"}

\* ''.join(chars)
RECURSIVE join(_)
join(chars) == IF chars = << >> THEN "" ELSE Head(chars) \o join(Tail(chars))

\* The index after the run of word characters that starts at i (\w+, greedy).
RECURSIVE word_end(_, _)
word_end(text, i) ==
    IF i <= Len(text) /\ text[i] \in WordChars THEN word_end(text, i + 1) ELSE i

\* The pattern \{\{(\w+)\}\} matched at position i of the text: the index
\* after the match, or 0 when there is no match at i.
match_at(text, i) ==
    LET j == word_end(text, i + 2) IN
    IF /\ j + 1 <= Len(text)
       /\ text[i] = "{" /\ text[i + 1] = "{"
       /\ j > i + 2
       /\ text[j] = "}" /\ text[j + 1] = "}"
    THEN j + 2 ELSE 0

\* Mutant of replace: the value is used whether it is None or not.
replace_NoNoneGuard(ctx, group0) ==
    << get_variable(ctx, join(SubSeq(group0, 3, Len(group0) - 2))) >>

\* replace(match) of substitute_variables: group0 is match.group(0), the
\* characters between its braces are match.group(1).  str(value) of a
\* string value is the value.
replace(ctx, group0) ==
    LET var_name == join(SubSeq(group0, 3, Len(group0) - 2))
        value == get_variable(ctx, var_name)
    IN  IF value # None THEN << value >> ELSE group0

\* re.sub(pattern, replace, text) from position i on: the leftmost match is
\* replaced and the scan goes on after it; the replacement is not scanned.
RECURSIVE re_sub(_, _, _)
re_sub(text, ctx, i) ==
    IF i > Len(text) THEN << >>
    ELSE LET end == match_at(text, i) IN
         IF end = 0 THEN << text[i] >> \o re_sub(text, ctx, i + 1)
         ELSE replace(ctx, SubSeq(text, i, end - 1)) \o re_sub(text, ctx, end)

\* APIExecutionService.substitute_variables, on a str.
substitute_variables(text, ctx) ==
    IF text = << >> THEN text ELSE re_sub(text, ctx, 1)

\* JSON values: the Python type, then the value.
Str(text) == << "str", text >>

Number(n) == << "int", n >>

Dict(items) == << "dict", items >>

List(elements) == << "list", elements >>

\* type(value) and the value itself.
type(value) == value[1]

the(value) == value[2]

\* APIExecutionService.substitute_in_dict, on the items of a dict.
RECURSIVE substitute_in_dict(_, _)
substitute_in_dict(data, ctx) ==
    IF DOMAIN data = {} THEN data
    ELSE [key \in DOMAIN data |->
            LET value == data[key] IN
            IF type(value) = "str"
            THEN Str(substitute_variables(the(value), ctx))
            ELSE IF type(value) = "dict"
            THEN Dict(substitute_in_dict(the(value), ctx))
            ELSE IF type(value) = "list"
            THEN List([n \in DOMAIN the(value) |->
                         LET v == the(value)[n] IN
                         IF type(v) = "str"
                         THEN Str(substitute_variables(the(v), ctx))
                         ELSE v])
            ELSE value]

\* The pieces a url template is written from: a placeholder, a brace, a
\* word character, another character.
PlaceholderOf(name) == << "{", "{" >> \o name \o << "}", "}" >>

Pieces ==
    { PlaceholderOf(<< "a" >>), PlaceholderOf(<< "a", "a" >>),
      << "{" >>, << "}" >>, << "a" >>, << "-" >> }

\* The text written from a sequence of pieces.
RECURSIVE text_of(_)
text_of(pieces) ==
    IF pieces = << >> THEN << >> ELSE Head(pieces) \o text_of(Tail(pieces))

\* The values of a query_params entry: a string with a placeholder, a
\* number, and these inside a dict or a list, nested up to twice.
Wrapped(values) ==
    values \cup { Dict([k \in {"k"} |-> v]) : v \in values }
           \cup { List(<< v >>) : v \in values }

JsonValues == Wrapped(Wrapped({ Str(PlaceholderOf(<< "a" >>)), Number(7) }))

\* The contexts of a call: the environment may hold a null (JSON null of
\* environment_variables or of the overrides); extracted_variables never
\* does (extract_variables_from_response sets only what is not None).
SubstituteContexts ==
    { [environment |-> e, extracted_variables |-> x] :
        e \in { f \in Dicts(TextNames, {"1", None}) :
                    "aa" \in DOMAIN f => f["aa"] = "1" },
        x \in Dicts({"a"}, {"3"}) }

\* No build_url call is under way.
SubstituteIdle ==
    /\ sub_pieces = << >>
    /\ sub_data = EmptyDict
    /\ sub_context = NoContext
    /\ sub_pc = "idle"
    /\ sub_url = << >>
    /\ sub_params = EmptyDict

\* ----------------------------------------------------- response handling
\* JSON null.
Null == << "NoneType", << >> >>

\* int(text) of the index texts of this model: ValueError for a text that
\* is not an integer literal (the empty text included).
int(text) ==
    IF text = << "0" >> THEN Returned(0)
    ELSE IF text = << "1" >> THEN Returned(1)
    ELSE IF text = << "-", "1" >> THEN Returned(-1)
    ELSE Raised("ValueError")

\* The for loop of extract_json_path over the parts of the path, from the
\* current value on.  A part is a sequence of characters; find(c) is the
\* position of the first c in it (0: not in it), d.get(key, default) is get.
RECURSIVE extract_loop(_, _)
extract_loop(current, parts) ==
    IF parts = << >> THEN Returned(current)
    ELSE
    LET part == Head(parts)
        find(c) == IF \E i \in DOMAIN part : part[i] = c
                   THEN CHOOSE i \in DOMAIN part :
                          /\ part[i] = c
                          /\ \A j \in 1..(i - 1) : part[j] # c
                   ELSE 0
        get(d, k, default) == IF k \in DOMAIN d THEN d[k] ELSE default
    IN  IF find("[") > 0 /\ find("]") > 0
        THEN LET key == SubSeq(part, 1, find("[") - 1)
                 index == int(SubSeq(part, find("[") + 1, find("]") - 1))
                 seq == IF key # << >> /\ type(current) = "dict"
                        THEN get(the(current), join(key), List(<< >>))
                        ELSE current
             IN  IF index.raised # "" THEN index
                 ELSE IF type(seq) = "list" /\ Len(the(seq)) > index.value
                 THEN \* current[index]: a negative index counts from the end
                      IF index.value >= 0
                      THEN extract_loop(the(seq)[index.value + 1], Tail(parts))
                      ELSE IF Len(the(seq)) + index.value >= 0
                      THEN extract_loop(the(seq)[Len(the(seq)) + index.value + 1],
                                        Tail(parts))
                      ELSE Raised("IndexError")
                 ELSE Returned(Null)
        ELSE IF type(current) = "dict"
        THEN extract_loop(get(the(current), join(part), Null), Tail(parts))
        ELSE Returned(Null)

\* APIExecutionService.extract_json_path: the path is the sequence of its
\* parts between the dots, the empty sequence for the empty path.
extract_json_path(data, json_path) ==
    IF json_path = << >> \/ data = Null THEN Returned(Null)
    ELSE extract_loop(data, json_path)

\* Largest size of a stored response body, in characters.
MAX_RESPONSE_SIZE == 10 * 1024

\* A text is known by its number of characters and by what was appended to
\* it; body[:n] keeps the first n characters.
Text(chars) == [chars |-> chars, suffix |-> ""]

\* Mutant of truncate_response: a body of exactly the largest size is cut.
truncate_response_Inclusive(body) ==
    IF body.chars >= MAX_RESPONSE_SIZE
    THEN [chars |-> MAX_RESPONSE_SIZE, suffix |-> "\n... [TRUNCATED]"]
    ELSE body

\* APIExecutionService.truncate_response
truncate_response(body) ==
    IF body.chars > MAX_RESPONSE_SIZE
    THEN [chars |-> MAX_RESPONSE_SIZE, suffix |-> "\n... [TRUNCATED]"]
    ELSE body

\* Mutant of set_extracted: nothing is written into the context.
set_extracted_Nothing(ctx, found) == ctx

\* The effect of extract_variables_from_response on the context: every
\* name whose extracted value is not None is set.
set_extracted(ctx, found) ==
    [ctx EXCEPT !.extracted_variables =
        update(@, [k \in {n \in DOMAIN found : found[n] # Null} |-> found[k]])]

\* The loops of validate_response over expected_response_contains: entries
\* are the entries left, pairs the items left of the dict entry at their
\* head, checked holds all_passed and the assertions so far.  An entry is a
\* str (a path), a dict (its items in insertion order) or anything else.
RECURSIVE contains_loop(_, _, _, _)
contains_loop(entries, pairs, checked, response_data) ==
    LET record(kind, json_path, passed) ==
            [checked EXCEPT
                !.assertions = Append(@, [type |-> kind, path |-> json_path,
                                          passed |-> passed]),
                !.all_passed = IF ~passed THEN FALSE ELSE @]
    IN
    IF pairs # << >>
    THEN LET actual_value == extract_json_path(response_data, Head(pairs)[1]) IN
         IF actual_value.raised # "" THEN actual_value
         ELSE contains_loop(entries, Tail(pairs),
                  record("response_contains", Head(pairs)[1],
                         actual_value.value = Head(pairs)[2]),
                  response_data)
    ELSE IF entries = << >> THEN Returned(checked)
    ELSE IF type(Head(entries)) = "dict"
    THEN contains_loop(Tail(entries), the(Head(entries)), checked, response_data)
    ELSE IF type(Head(entries)) = "str"
    THEN LET actual_value == extract_json_path(response_data, the(Head(entries))) IN
         IF actual_value.raised # "" THEN actual_value
         ELSE contains_loop(Tail(entries), << >>,
                  record("key_exists", the(Head(entries)),
                         actual_value.value # Null),
                  response_data)
    ELSE contains_loop(Tail(entries), << >>, checked, response_data)

\* APIExecutionService.validate_response with the assertions it returns:
\* the status check first, when expected_status_code is set.
validate_response_details(ep, status_code, response_data) ==
    LET passed == status_code = ep.expected_status_code
        checked ==
            IF ep.expected_status_code # NoExpectedStatus
            THEN [all_passed |-> passed,
                  assertions |-> << [type |-> "status_code", path |-> << >>,
                                     passed |-> passed] >>]
            ELSE [all_passed |-> TRUE, assertions |-> << >>]
    IN  contains_loop(ep.expected_response_contains, << >>, checked, response_data)

\* The parts of a path of this model: a key, a key with an index, an index.
Parts ==
    { << "k" >>, << "j" >>, << "k", "[", "0", "]" >>, << "[", "0", "]" >>,
      << "k", "[", "-", "1", "]" >>, << "k", "[", "x", "]" >> }

\* The parsed bodies of the replies: null, a number, an empty list, and
\* these inside a dict or a list, nested up to twice.
ResponseData == Wrapped(Wrapped({ Null, Number(1), List(<< >>) }))

\* The expected_response_contains of an endpoint that checks a path: no
\* entry, the path as a bare string, a dict of two pairs, an entry that is
\* neither, a path with an index that is not a number, and sequences of
\* these.
ContainsOf(json_path) ==
    LET exists == << "str", json_path >>
        equals == << "dict", << << json_path, Number(1) >>,
                                << << << "k" >> >>, Null >> >> >>
        letter == << "str", << << "k", "[", "x", "]" >> >> >>
    IN  { << >>, << exists >>, << equals >>, << Number(1), exists, equals >>,
          << exists, letter >> }

\* The replies: an exception of the request, a response with a short body
\* and any parsed data, or a response with a body around the largest size
\* (its size in bytes is its number of characters or more).
ResponseReplies ==
    [exc : {"Timeout", "ConnectionError"}, status_code : {0},
     text : {Text(0)}, size : {0}, data : {Null}]
    \cup [exc : {""}, status_code : {200, 404},
          text : {Text(2)}, size : {2}, data : ResponseData]
    \cup { [exc |-> "", status_code |-> 200, text |-> Text(b[1]),
            size |-> b[2], data |-> Null] :
              b \in { << MAX_RESPONSE_SIZE, MAX_RESPONSE_SIZE >>,
                      << MAX_RESPONSE_SIZE, 2 * MAX_RESPONSE_SIZE >>,
                      << MAX_RESPONSE_SIZE + 1, MAX_RESPONSE_SIZE + 1 >>,
                      << MAX_RESPONSE_SIZE + 1, 2 * MAX_RESPONSE_SIZE >> } }

\* ExecutionResultData(), as far as the response is concerned.
NoResponseResult ==
    [status |-> SUCCESS, error_type |-> "", response_status_code |-> 0,
     response_size_bytes |-> 0, response_body |-> Text(0),
     extracted_variables |-> EmptyDict, assertions_passed |-> TRUE,
     assertion_details |-> << >>]

\* No reply is being handled.
ResponseIdle ==
    /\ resp_input = [endpoint |-> EmptyDict, reply |-> EmptyDict,
                     context |-> NoContext]
    /\ resp_context = NoContext
    /\ resp_pc = "idle"
    /\ resp_result = NoResponseResult

\* ------------------------------------------------------ private chat rooms
\* The users, and the requests that may run at the same time.
Users == {"u1", "u2", "u3"}

Requests == {1, 2}

NoRoom == 0

\* ChatRoom.objects.filter(room_type=PRIVATE, participants=user1)
\*     .filter(participants=user2).first(): the first of the committed rooms
\* that have both users, NoRoom when there is none.
existing_room(rooms, user1, user2) ==
    LET found == {r \in DOMAIN rooms : {user1, user2} \subseteq rooms[r]} IN
    IF found = {} THEN NoRoom
    ELSE CHOOSE r \in found : \A q \in found : r <= q

\* No call of get_or_create_private_room yet.
ChatIdle ==
    /\ chat_rooms = << >>
    /\ chat_call = [c \in Requests |->
                      [pc |-> "idle", user1 |-> "", user2 |-> "",
                       room |-> NoRoom, created |-> FALSE, raised |-> ""]]
    /\ chat_count = 0

\* ---------------------------------------------------------- scheduled runs
\* A DateTimeField that is null.
NoTime == -1

\* No schedule in the table.
SchedulerIdle ==
    /\ schedules = << >>
    /\ now = 0

\* ------------------------------------------------ the parts of the state
\* The variables an operation of one specification leaves alone are those
\* of the other specifications.
not_orchestrator_vars ==
    << context_vars, request_vars, substitute_vars,
       response_vars, chat_vars, scheduler_vars >>

not_context_vars ==
    << orchestrator_vars, request_vars, substitute_vars,
       response_vars, chat_vars, scheduler_vars >>

not_request_vars ==
    << orchestrator_vars, context_vars, substitute_vars,
       response_vars, chat_vars, scheduler_vars >>

not_substitute_vars ==
    << orchestrator_vars, context_vars, request_vars,
       response_vars, chat_vars, scheduler_vars >>

not_response_vars ==
    << orchestrator_vars, context_vars, request_vars,
       substitute_vars, chat_vars, scheduler_vars >>

not_chat_vars ==
    << orchestrator_vars, context_vars, request_vars,
       substitute_vars, response_vars, scheduler_vars >>

not_scheduler_vars ==
    << orchestrator_vars, context_vars, request_vars,
       substitute_vars, response_vars, chat_vars >>

\* The collections the two calls run on and the overrides they are given:
\* the values of a call's environment name the call; no environment
\* defines "id".
CallInputs(r) ==
    [ environment_variables :
          { [k \in d |-> "env" \o ToString(r)] : d \in SUBSET {"token"} },
      environment_overrides :
          { [k \in d |-> "override" \o ToString(r)] : d \in SUBSET {"token"} } ]

\* No call of execute_collection is under way on the service.
ContextIdle ==
    /\ session = None
    /\ context = [s \in Runs |-> NoContext]
    /\ call_input = [r \in Runs |-> [environment_variables |-> EmptyDict,
                                     environment_overrides |-> EmptyDict]]
    /\ call_pc = [r \in Runs |-> "start"]
    /\ call_idx = [r \in Runs |-> 0]
    /\ call_resolved = [r \in Runs |-> [n \in Names |-> ""]]
    /\ call_extracted = [r \in Runs |-> EmptyDict]
    /\ result_rows = {}

\* ------------------------------------------------------------------ Init
\* The endpoint at position i of the ordered list has id i; a depends_on_id
\* beyond the length of the list names an endpoint that is not among the
\* active endpoints of the collection.  The endpoints of one collection
\* share their retry and status-expectation settings; dependencies vary
\* per endpoint.
EndpointLists ==
    UNION { { [i \in 1..n |-> [id |-> i, depends_on_id |-> d[i],
                               retry_count |-> rc, expected_status_code |-> esc]] :
                d \in [1..n -> 0..MaxEndpoints],
                rc \in 0..MaxRetry,
                esc \in ExpectedStatusCodes }
            : n \in 0..MaxEndpoints }

Init ==
    /\ endpoints \in EndpointLists
    /\ credential \in BOOLEAN
    /\ path \in {"collection", "single"}
    /\ path = "single" => Len(endpoints) = 1
    /\ pc = "start"
    /\ idx = 0
    /\ attempt = 0
    /\ result_data = NoResult
    /\ last_reply = NoReply
    /\ attempts = 0
    /\ sleeps = 0
    /\ executed = {}
    /\ successful_count = 0
    /\ failed_count = 0
    /\ skipped_count = 0
    /\ completed_endpoints = {}
    /\ failed_endpoints = {}
    /\ results = << >>
    /\ execution_run = NoRun
    /\ db_run = NoRun
    /\ raised = ""
    /\ logged_error = ""
    /\ mark_used_calls = 0
    /\ ContextIdle
    /\ RequestIdle
    /\ SubstituteIdle
    /\ ResponseIdle
    /\ ChatIdle
    /\ SchedulerIdle

\* ------------------------------------------- execute_collection: prologue
\* An empty endpoint list raises ValueError before any run is created.
RaiseEmptyCollection ==
    /\ pc = "start"
    /\ UNCHANGED not_orchestrator_vars
    /\ UNCHANGED mark_used_calls
    /\ path = "collection"
    /\ endpoints = << >>
    /\ raised' = "ValueError"
    /\ pc' = "propagated"
    /\ UNCHANGED << endpoints, credential, path, idx, attempt, result_data,
                    attempts, sleeps, executed, successful_count,
                    failed_count, skipped_count, completed_endpoints,
                    failed_endpoints, results, execution_run, db_run,
                    last_reply, logged_error >>

\* ExecutionRun.objects.create(total_apis=len(endpoints)): the run exists,
\* as an object and as a row, in status pending.
CreateRun ==
    /\ pc = "start"
    /\ UNCHANGED not_orchestrator_vars
    /\ UNCHANGED mark_used_calls
    /\ path = "collection"
    /\ endpoints # << >>
    /\ execution_run' = NewRun(Len(endpoints))
    /\ db_run' = NewRun(Len(endpoints))
    /\ pc' = "created"
    /\ UNCHANGED << endpoints, credential, path, idx, attempt, result_data,
                    attempts, sleeps, executed, successful_count,
                    failed_count, skipped_count, completed_endpoints,
                    failed_endpoints, results, raised, last_reply,
                    logged_error >>

\* The context is built between the creation of the run and the try
\* statement: context.merge_environment(environment_overrides) is
\* dict.update, which raises ValueError (TypeError) for overrides that are no
\* mapping, such as a JSON string or list of the request body, which the view
\* passes on as received.  The exception leaves execute_collection.
BuildContextRaises ==
    /\ pc = "created"
    /\ UNCHANGED not_orchestrator_vars
    /\ UNCHANGED mark_used_calls
    /\ raised' = "ValueError"
    /\ pc' = "propagated"
    /\ UNCHANGED << endpoints, credential, path, idx, attempt, result_data,
                    attempts, sleeps, executed, successful_count,
                    failed_count, skipped_count, completed_endpoints,
                    failed_endpoints, results, execution_run, db_run,
                    last_reply, logged_error >>

\* The context is built, the collection's credential is looked up,
\* execution_run.mark_started(), counters and sets are initialised.
StartCollection ==
    /\ pc = "created"
    /\ UNCHANGED not_orchestrator_vars
    /\ UNCHANGED mark_used_calls
    /\ execution_run' = mark_started(execution_run)
    /\ db_run' = save_status_fields(db_run, execution_run')
    /\ successful_count' = 0
    /\ failed_count' = 0
    /\ skipped_count' = 0
    /\ completed_endpoints' = {}
    /\ failed_endpoints' = {}
    /\ pc' = "loop"
    /\ UNCHANGED << endpoints, credential, path, idx, attempt, result_data,
                    attempts, sleeps, executed, results, raised, last_reply,
                    logged_error >>

\* ------------------------------------------------ execute_collection: loop
\* The next endpoint declares a dependency that failed or has not
\* succeeded: _save_skipped_result, skipped_count += 1, continue.
SkipEndpoint ==
    /\ pc = "loop"
    /\ UNCHANGED not_orchestrator_vars
    /\ UNCHANGED mark_used_calls
    /\ idx < Len(endpoints)
    /\ LET ep == endpoints[idx + 1]
           reason == skip_reason(ep, completed_endpoints, failed_endpoints)
       IN  /\ reason # ""
           /\ results' = Append(results, skipped_result_row(ep, reason))
    /\ skipped_count' = skipped_count + 1
    /\ idx' = idx + 1
    /\ UNCHANGED << endpoints, credential, path, pc, attempt, result_data,
                    attempts, sleeps, executed, successful_count,
                    failed_count, completed_endpoints, failed_endpoints,
                    execution_run, db_run, raised, last_reply, logged_error >>

\* As SkipEndpoint, but ExecutionResult.objects.create raises.
SkipEndpointRaises ==
    /\ pc = "loop"
    /\ UNCHANGED not_orchestrator_vars
    /\ UNCHANGED mark_used_calls
    /\ idx < Len(endpoints)
    /\ skip_reason(endpoints[idx + 1], completed_endpoints, failed_endpoints) # ""
    /\ idx' = idx + 1
    /\ raised' = "DatabaseError"
    /\ pc' = "except"
    /\ UNCHANGED << endpoints, credential, path, attempt, result_data,
                    attempts, sleeps, executed, successful_count,
                    failed_count, skipped_count, completed_endpoints,
                    failed_endpoints, results, execution_run, db_run,
                    last_reply, logged_error >>

\* The next endpoint passes the dependency check: execute_with_retry is
\* entered, its loop starts at attempt 0.
BeginExecute ==
    /\ pc = "loop"
    /\ UNCHANGED not_orchestrator_vars
    /\ UNCHANGED mark_used_calls
    /\ idx < Len(endpoints)
    /\ skip_reason(endpoints[idx + 1], completed_endpoints, failed_endpoints) = ""
    /\ idx' = idx + 1
    /\ attempt' = 0
    /\ attempts' = 0
    /\ sleeps' = 0
    /\ result_data' = NoResult
    /\ last_reply' = NoReply
    /\ pc' = "attempt"
    /\ UNCHANGED << endpoints, credential, path, executed, successful_count,
                    failed_count, skipped_count, completed_endpoints,
                    failed_endpoints, results, execution_run, db_run, raised,
                    logged_error >>

\* --------------------------------------------------- execute_with_retry
\* One round of the loop: execute_single_api, then the three tests that
\* return the result or fall through to the sleep.
Attempt ==
    /\ pc = "attempt"
    /\ UNCHANGED not_orchestrator_vars
    /\ UNCHANGED mark_used_calls
    /\ \E reply \in Replies :
         LET res == assign_result(result_data,
                                  execute_single_api(endpoint, reply, attempt)) IN
         /\ last_reply' = reply
         /\ result_data' = res
         /\ IF res = Uncaught
            THEN /\ raised' = reply.exc.name
                 /\ pc' = IF path = "collection" THEN "except" ELSE "error_response"
            ELSE /\ raised' = raised
                 /\ pc' = IF retry_after(endpoint, res, attempt)
                          THEN "sleep" ELSE "returned"
    /\ attempts' = attempts + 1
    /\ executed' = executed \cup {endpoint.id}
    /\ UNCHANGED << endpoints, credential, path, idx, attempt, sleeps,
                    successful_count, failed_count, skipped_count,
                    completed_endpoints, failed_endpoints, results,
                    execution_run, db_run, logged_error >>

\* time.sleep(retry_delay), then the next round of the loop.
Sleep ==
    /\ pc = "sleep"
    /\ UNCHANGED not_orchestrator_vars
    /\ UNCHANGED mark_used_calls
    /\ sleeps' = sleeps + 1
    /\ attempt' = attempt + 1
    /\ pc' = "attempt"
    /\ UNCHANGED << endpoints, credential, path, idx, result_data, attempts,
                    executed, successful_count, failed_count, skipped_count,
                    completed_endpoints, failed_endpoints, results,
                    execution_run, db_run, raised, last_reply, logged_error >>

\* ------------------------------------- execute_collection: after the call
\* _save_execution_result, then the counters and the two sets are updated.
\* The locals of the finished execute_with_retry call are dead from here on
\* (the next call overwrites them) and are cleared.
SaveResult ==
    /\ pc = "returned"
    /\ UNCHANGED not_orchestrator_vars
    /\ UNCHANGED mark_used_calls
    /\ path = "collection"
    /\ results' = Append(results, execution_result_row(endpoint, result_data))
    /\ IF result_data.status = SUCCESS
       THEN /\ successful_count' = successful_count + 1
            /\ completed_endpoints' = completed_endpoints \cup {endpoint.id}
            /\ UNCHANGED << failed_count, failed_endpoints >>
       ELSE /\ failed_count' = failed_count + 1
            /\ failed_endpoints' = failed_endpoints \cup {endpoint.id}
            /\ UNCHANGED << successful_count, completed_endpoints >>
    /\ pc' = "loop"
    /\ result_data' = NoResult
    /\ last_reply' = NoReply
    /\ attempt' = 0
    /\ attempts' = 0
    /\ sleeps' = 0
    /\ UNCHANGED << endpoints, credential, path, idx, executed, skipped_count,
                    execution_run, db_run, raised, logged_error >>

\* As SaveResult, but ExecutionResult.objects.create raises.
SaveResultRaises ==
    /\ pc = "returned"
    /\ UNCHANGED not_orchestrator_vars
    /\ UNCHANGED mark_used_calls
    /\ path = "collection"
    /\ raised' = "DatabaseError"
    /\ pc' = "except"
    /\ UNCHANGED << endpoints, credential, path, idx, attempt, result_data,
                    attempts, sleeps, executed, successful_count,
                    failed_count, skipped_count, completed_endpoints,
                    failed_endpoints, results, execution_run, db_run,
                    last_reply, logged_error >>

\* The loop is exhausted: if credential: credential.mark_used().
MarkUsed ==
    /\ pc = "loop"
    /\ UNCHANGED not_orchestrator_vars
    /\ idx = Len(endpoints)
    /\ mark_used_calls' = IF credential THEN mark_used_calls + 1
                          ELSE mark_used_calls
    /\ pc' = "finally"
    /\ UNCHANGED << endpoints, credential, path, idx, attempt, result_data,
                    attempts, sleeps, executed, successful_count,
                    failed_count, skipped_count, completed_endpoints,
                    failed_endpoints, results, execution_run, db_run, raised,
                    last_reply, logged_error >>

\* credential.mark_used() raises.
MarkUsedRaises ==
    /\ pc = "loop"
    /\ UNCHANGED not_orchestrator_vars
    /\ UNCHANGED mark_used_calls
    /\ idx = Len(endpoints)
    /\ credential
    /\ raised' = "DatabaseError"
    /\ pc' = "except"
    /\ UNCHANGED << endpoints, credential, path, idx, attempt, result_data,
                    attempts, sleeps, executed, successful_count,
                    failed_count, skipped_count, completed_endpoints,
                    failed_endpoints, results, execution_run, db_run,
                    last_reply, logged_error >>

\* Mutant of remaining_as_skipped: the failed endpoints are not deducted.
remaining_as_skipped_FailedForgotten(n, succeeded, failed) == n - succeeded

\* skipped_count = len(endpoints) - successful_count - failed_count
remaining_as_skipped(n, succeeded, failed) == n - succeeded - failed

\* except Exception: the exception is logged and the remaining endpoints are
\* counted as skipped.
HandleException ==
    /\ pc = "except"
    /\ UNCHANGED not_orchestrator_vars
    /\ UNCHANGED mark_used_calls
    /\ logged_error' = raised
    /\ skipped_count' = remaining_as_skipped(Len(endpoints), successful_count, failed_count)
    /\ raised' = ""
    /\ pc' = "finally"
    /\ UNCHANGED << endpoints, credential, path, idx, attempt, result_data,
                    attempts, sleeps, executed, successful_count,
                    failed_count, completed_endpoints, failed_endpoints,
                    results, execution_run, db_run, last_reply >>

\* finally: the counters are copied to the run object, mark_completed
\* derives the status and saves its update_fields; the run is returned.
Finalize ==
    /\ pc = "finally"
    /\ UNCHANGED not_orchestrator_vars
    /\ UNCHANGED mark_used_calls
    /\ execution_run' = mark_completed(
           [execution_run EXCEPT !.successful_count = successful_count,
                                 !.failed_count = failed_count,
                                 !.skipped_count = skipped_count])
    /\ db_run' = save_status_fields(db_run, execution_run')
    /\ pc' = "done"
    /\ UNCHANGED << endpoints, credential, path, idx, attempt, result_data,
                    attempts, sleeps, executed, successful_count,
                    failed_count, skipped_count, completed_endpoints,
                    failed_endpoints, results, raised, last_reply,
                    logged_error >>

\* ------------------------------------- the single-endpoint run (views.py)
\* ExecutionRun.objects.create(total_apis=1), mark_started, the context is
\* built and execute_with_retry is entered; no dependency is checked.
StartSingle ==
    /\ pc = "start"
    /\ UNCHANGED not_orchestrator_vars
    /\ UNCHANGED mark_used_calls
    /\ path = "single"
    /\ execution_run' = mark_started(NewRun(1))
    /\ db_run' = save_status_fields(NewRun(1), execution_run')
    /\ idx' = 1
    /\ attempt' = 0
    /\ attempts' = 0
    /\ sleeps' = 0
    /\ pc' = "attempt"
    /\ UNCHANGED << endpoints, credential, path, result_data, executed,
                    successful_count, failed_count, skipped_count,
                    completed_endpoints, failed_endpoints, results, raised,
                    last_reply, logged_error >>

\* _save_execution_result, one counter of the run object is set to 1,
\* mark_completed; the result is returned to the client.
FinishSingle ==
    /\ pc = "returned"
    /\ UNCHANGED not_orchestrator_vars
    /\ UNCHANGED mark_used_calls
    /\ path = "single"
    /\ results' = Append(results, execution_result_row(endpoint, result_data))
    /\ execution_run' = mark_completed(
           IF result_data.status = SUCCESS
           THEN [execution_run EXCEPT !.successful_count = 1]
           ELSE [execution_run EXCEPT !.failed_count = 1])
    /\ db_run' = save_status_fields(db_run, execution_run')
    /\ pc' = "done"
    /\ UNCHANGED << endpoints, credential, path, idx, attempt, result_data,
                    attempts, sleeps, executed, successful_count,
                    failed_count, skipped_count, completed_endpoints,
                    failed_endpoints, raised, last_reply, logged_error >>

\* _save_execution_result raises: the view's except clause answers 500 and
\* the run is not finalized.
FinishSingleRaises ==
    /\ pc = "returned"
    /\ UNCHANGED not_orchestrator_vars
    /\ UNCHANGED mark_used_calls
    /\ path = "single"
    /\ raised' = "DatabaseError"
    /\ pc' = "error_response"
    /\ UNCHANGED << endpoints, credential, path, idx, attempt, result_data,
                    attempts, sleeps, executed, successful_count,
                    failed_count, skipped_count, completed_endpoints,
                    failed_endpoints, results, execution_run, db_run,
                    last_reply, logged_error >>

Next ==
    \/ RaiseEmptyCollection
    \/ CreateRun
    \/ BuildContextRaises
    \/ StartCollection
    \/ SkipEndpoint
    \/ SkipEndpointRaises
    \/ BeginExecute
    \/ Attempt
    \/ Sleep
    \/ SaveResult
    \/ SaveResultRaises
    \/ MarkUsed
    \/ MarkUsedRaises
    \/ HandleException
    \/ Finalize
    \/ StartSingle
    \/ FinishSingle
    \/ FinishSingleRaises

Spec == Init /\ [][Next]_vars

TypeOK ==
    /\ pc \in {"start", "created", "loop", "attempt", "sleep", "returned",
               "except", "finally", "done", "propagated", "error_response"}
    /\ idx \in 0..Len(endpoints)
    /\ attempt \in 0..MaxRetry
    /\ Len(results) <= Len(endpoints)

\* ------------------------------ two calls of execute_collection together
\* No run of the orchestrator model is under way.
OrchestratorIdle ==
    /\ endpoints = << >>
    /\ credential = FALSE
    /\ path = "collection"
    /\ pc = "start"
    /\ idx = 0
    /\ attempt = 0
    /\ result_data = NoResult
    /\ last_reply = NoReply
    /\ attempts = 0
    /\ sleeps = 0
    /\ executed = {}
    /\ successful_count = 0
    /\ failed_count = 0
    /\ skipped_count = 0
    /\ completed_endpoints = {}
    /\ failed_endpoints = {}
    /\ results = << >>
    /\ execution_run = NoRun
    /\ db_run = NoRun
    /\ raised = ""
    /\ logged_error = ""
    /\ mark_used_calls = 0

\* The value the response to endpoint i of call r holds for every name it
\* defines: it names the call and the endpoint.
ResponseValue(r, i) == "run" \o ToString(r) \o "." \o ToString(i)

\* What the responses can hold for the names of extract_variables: the
\* response's value where extract_json_path finds one, None elsewhere.
Extractions(r, i) ==
    { [n \in Names |-> IF n \in found THEN ResponseValue(r, i) ELSE None] :
        found \in SUBSET Names }

ContextInit ==
    /\ OrchestratorIdle
    /\ RequestIdle
    /\ SubstituteIdle
    /\ ResponseIdle
    /\ ChatIdle
    /\ SchedulerIdle
    /\ session = None
    /\ context = [s \in Runs |-> NoContext]
    /\ call_input \in [Runs -> UNION { CallInputs(r) : r \in Runs }]
    /\ \A r \in Runs : call_input[r] \in CallInputs(r)
    /\ call_pc = [r \in Runs |-> "start"]
    /\ call_idx = [r \in Runs |-> 0]
    /\ call_resolved = [r \in Runs |-> [n \in Names |-> ""]]
    /\ call_extracted = [r \in Runs |-> EmptyDict]
    /\ result_rows = {}

\* The prologue of execute_collection: the context is built from a copy of
\* the collection's environment and the overrides are merged into it.
CallStart(r) ==
    /\ call_pc[r] = "start"
    /\ context' = [context EXCEPT ![context_slot(r)] =
           merge_environment(
               ExecutionContext(call_input[r].environment_variables),
               call_input[r].environment_overrides)]
    /\ call_pc' = [call_pc EXCEPT ![r] = "build"]
    /\ UNCHANGED << session, call_input, call_idx, call_resolved,
                    call_extracted, result_rows >>
    /\ UNCHANGED not_context_vars

\* execute_single_api up to the request: the placeholders of the endpoint
\* are substituted from the context the call holds and the request is sent
\* on the service's session, which the first use creates.
CallBuild(r) ==
    /\ call_pc[r] = "build"
    /\ call_idx[r] < MaxCallEndpoints
    /\ call_resolved' = [call_resolved EXCEPT ![r] =
           [n \in Names |-> replace_var(context[context_slot(r)], n)]]
    /\ session' = "Session"
    /\ call_pc' = [call_pc EXCEPT ![r] = "respond"]
    /\ UNCHANGED << context, call_input, call_idx, call_extracted, result_rows >>
    /\ UNCHANGED not_context_vars

\* The response arrives: the variables it defines are extracted into the
\* context the call holds, the result row of the endpoint is saved and the
\* loop goes on.
CallRespond(r) ==
    /\ call_pc[r] = "respond"
    /\ \E extracted \in Extractions(r, call_idx[r] + 1) :
         /\ context' = [context EXCEPT ![context_slot(r)] =
                extract_variables_from_response(@, extracted)]
         /\ call_extracted' = [call_extracted EXCEPT ![r] =
                update(@, [k \in {n \in Names : extracted[n] # None}
                             |-> extracted[k]])]
    /\ result_rows' = result_rows \cup
           { [execution_run |-> r, api_endpoint |-> << r, call_idx[r] + 1 >>] }
    /\ call_idx' = [call_idx EXCEPT ![r] = @ + 1]
    /\ call_pc' = [call_pc EXCEPT ![r] =
           IF call_idx[r] + 1 = MaxCallEndpoints THEN "done" ELSE "build"]
    /\ UNCHANGED << session, call_input, call_resolved >>
    /\ UNCHANGED not_context_vars

ContextNext ==
    \E r \in Runs :
        \/ CallStart(r)
        \/ CallBuild(r)
        \/ CallRespond(r)

ContextSpec == ContextInit /\ [][ContextNext]_vars

\* ------------------------------------- one execute_single_api call
\* The settings of the endpoint of the call that its outcome depends on.
RequestEndpointSettings ==
    [id |-> 1, depends_on_id |-> NoDependency, retry_count |-> 0,
     expected_status_code |-> NoExpectedStatus]

\* urlencode(params): the names and values of the query parameters.
RECURSIVE urlencode(_)
urlencode(params) ==
    IF DOMAIN params = {} THEN << >>
    ELSE LET k == CHOOSE j \in DOMAIN params : TRUE IN
         << k >> \o params[k]
             \o urlencode([j \in DOMAIN params \ {k} |-> params[j]])

\* str(e) of an exception of session.request: the text of the exception;
\* that of a connection failure can quote the URL of the request with its
\* query string.
ExceptionTexts(reply, url) ==
    IF reply.exc.isConnection /\ ~reply.exc.isTimeout
    THEN { << reply.exc.name >>,
           << reply.exc.name, "Max retries exceeded with url:" >> \o urlencode(url) }
    ELSE { << reply.exc.name >> }

\* result.error_message as the except clauses of execute_single_api set it.
error_message(reply, text) ==
    IF reply.exc = NoException THEN << >>
    ELSE IF reply.exc.isTimeout THEN << "Request timed out after", "30s" >>
    ELSE IF reply.exc.isConnection THEN << "Failed to connect:" >> \o text
    ELSE IF reply.exc.isRequest THEN text
    ELSE << "Unexpected error:" >> \o text

RequestInit ==
    /\ OrchestratorIdle
    /\ ContextIdle
    /\ SubstituteIdle
    /\ ResponseIdle
    /\ ChatIdle
    /\ SchedulerIdle
    /\ req_endpoint \in RequestEndpoints
    /\ req_credential \in AuthCredentials \cup {NoCredential}
    /\ req_pc = "build"
    /\ request = NoRequest
    /\ result = NoRequestResult

\* The head of the try block: build_url, build_headers and build_body, then
\* the request details are stored in the result, the headers masked.  An
\* exception of a builder is caught by except Exception before anything is
\* stored or sent.
BuildRequest ==
    /\ req_pc = "build"
    /\ LET url == build_url(req_endpoint, req_credential)
           headers == build_headers(req_endpoint, req_credential)
           failure == IF url.raised # "" THEN url.raised ELSE headers.raised
       IN  IF failure # ""
           THEN /\ result' = [result EXCEPT
                       !.status = ERROR, !.error_type = failure,
                       !.error_message = << "Unexpected error:", failure >>]
                /\ request' = request
                /\ req_pc' = "returned"
           ELSE /\ result' = [result EXCEPT
                       !.request_url = url.value,
                       !.request_headers = mask_headers(headers.value),
                       !.request_body =
                           IF req_endpoint.body_type = "none" THEN << >>
                           ELSE << "configured body" >>]
                /\ request' = [url |-> url.value, headers |-> headers.value,
                               reply |-> NoReply]
                /\ req_pc' = "sent"
    /\ UNCHANGED << req_endpoint, req_credential >>
    /\ UNCHANGED not_request_vars

\* session.request returns or raises: the outcome is classified and the
\* result is returned.
CompleteRequest ==
    /\ req_pc = "sent"
    /\ \E reply \in Replies :
         \E text \in ExceptionTexts(reply, request.url) :
            LET outcome == execute_single_api(RequestEndpointSettings, reply, 0) IN
            /\ result' = [result EXCEPT
                   !.status = outcome.status,
                   !.error_type = outcome.error_type,
                   !.error_message = error_message(reply, text)]
            /\ request' = [request EXCEPT !.reply = reply]
    /\ req_pc' = "returned"
    /\ UNCHANGED << req_endpoint, req_credential >>
    /\ UNCHANGED not_request_vars

RequestNext ==
    \/ BuildRequest
    \/ CompleteRequest

RequestSpec == RequestInit /\ [][RequestNext]_vars

\* ----------------------------------------------- substitution in build_url
\* A call of build_url: any url template of at most MaxPieces pieces, any
\* query_params with one entry, any context.
SubstituteInit ==
    /\ OrchestratorIdle
    /\ ContextIdle
    /\ RequestIdle
    /\ ResponseIdle
    /\ ChatIdle
    /\ SchedulerIdle
    /\ sub_pieces \in UNION { [1..n -> Pieces] : n \in 0..MaxPieces }
    /\ sub_data \in { [k \in {"q"} |-> v] : v \in JsonValues }
    /\ sub_context \in SubstituteContexts
    /\ sub_pc = "start"
    /\ sub_url = << >>
    /\ sub_params = EmptyDict

\* url = self.substitute_variables(endpoint.url, context)
SubstituteUrl ==
    /\ sub_pc = "start"
    /\ sub_url' = substitute_variables(text_of(sub_pieces), sub_context)
    /\ sub_pc' = "url"
    /\ UNCHANGED << sub_pieces, sub_data, sub_context, sub_params >>
    /\ UNCHANGED not_substitute_vars

\* endpoint_params = self.substitute_in_dict(endpoint.query_params, context)
SubstituteParams ==
    /\ sub_pc = "url"
    /\ sub_params' = substitute_in_dict(sub_data, sub_context)
    /\ sub_pc' = "done"
    /\ UNCHANGED << sub_pieces, sub_data, sub_context, sub_url >>
    /\ UNCHANGED not_substitute_vars

SubstituteNext ==
    \/ SubstituteUrl
    \/ SubstituteParams

SubstituteSpec == SubstituteInit /\ [][SubstituteNext]_vars

\* ------------------------------------- the response in execute_single_api
\* A call: an endpoint that extracts and checks one path, any reply, a
\* context with or without an earlier value of the variable.
ResponseInit ==
    /\ OrchestratorIdle
    /\ ContextIdle
    /\ RequestIdle
    /\ SubstituteIdle
    /\ ChatIdle
    /\ SchedulerIdle
    /\ \E p \in UNION { [1..n -> Parts] : n \in 0..MaxPath },
          e \in {NoExpectedStatus, 200},
          r \in ResponseReplies,
          ctx \in { ExecutionContext(EmptyDict),
                    set_variable(ExecutionContext(EmptyDict), "token", Number(7)) } :
         \E c \in ContainsOf(p) :
            /\ resp_input =
                  [endpoint |-> [extract_variables |-> [n \in {"token"} |-> p],
                                 expected_status_code |-> e,
                                 expected_response_contains |-> c],
                   reply |-> r,
                   context |-> ctx]
            /\ resp_context = ctx
    /\ resp_pc = "sent"
    /\ resp_result = NoResponseResult

\* session.request returns or raises: the status code, the size and the
\* truncated body of a response are stored; a timeout or a connection error
\* ends the call in its except clause.
ReceiveReply ==
    /\ resp_pc = "sent"
    /\ LET reply == resp_input.reply IN
       IF reply.exc = ""
       THEN /\ resp_result' = [resp_result EXCEPT
                   !.response_status_code = reply.status_code,
                   !.response_size_bytes = reply.size,
                   !.response_body = truncate_response(reply.text)]
            /\ resp_pc' = "extract"
       ELSE /\ resp_result' = [resp_result EXCEPT
                   !.status = IF reply.exc = "Timeout" THEN TIMEOUT ELSE ERROR,
                   !.error_type = reply.exc]
            /\ resp_pc' = "returned"
    /\ UNCHANGED << resp_input, resp_context >>
    /\ UNCHANGED not_response_vars

\* extract_variables_from_response on the parsed body; an exception of
\* extract_json_path ends the call in the except Exception clause.
ExtractVariables ==
    /\ resp_pc = "extract"
    /\ LET paths == resp_input.endpoint.extract_variables
           values == [n \in DOMAIN paths |->
                        extract_json_path(resp_input.reply.data, paths[n])]
           failed == {n \in DOMAIN paths : values[n].raised # ""}
           found == [n \in DOMAIN paths |-> values[n].value]
       IN  IF failed # {}
           THEN /\ resp_result' = [resp_result EXCEPT
                       !.status = ERROR,
                       !.error_type = values[CHOOSE n \in failed : TRUE].raised]
                /\ resp_context' = resp_context
                /\ resp_pc' = "returned"
           ELSE /\ resp_context' = set_extracted(resp_context, found)
                /\ resp_result' = [resp_result EXCEPT
                       !.extracted_variables =
                           [k \in {n \in DOMAIN found : found[n] # Null}
                              |-> found[k]]]
                /\ resp_pc' = "validate"
    /\ UNCHANGED resp_input
    /\ UNCHANGED not_response_vars

\* validate_response and the status of the result.
ValidateResponse ==
    /\ resp_pc = "validate"
    /\ LET status_code == resp_input.reply.status_code
           validated == validate_response_details(resp_input.endpoint, status_code,
                                                  resp_input.reply.data)
       IN  IF validated.raised # ""
           THEN resp_result' = [resp_result EXCEPT
                    !.status = ERROR, !.error_type = validated.raised]
           ELSE resp_result' = [resp_result EXCEPT
                    !.assertions_passed = validated.value.all_passed,
                    !.assertion_details = validated.value.assertions,
                    !.status = IF status_code >= 400 THEN FAILED
                               ELSE IF ~validated.value.all_passed THEN FAILED
                               ELSE SUCCESS]
    /\ resp_pc' = "returned"
    /\ UNCHANGED << resp_input, resp_context >>
    /\ UNCHANGED not_response_vars

ResponseNext ==
    \/ ReceiveReply
    \/ ExtractVariables
    \/ ValidateResponse

ResponseSpec == ResponseInit /\ [][ResponseNext]_vars

\* --------------------------------------------- get_or_create_private_room
ChatInit ==
    /\ OrchestratorIdle
    /\ ContextIdle
    /\ RequestIdle
    /\ SubstituteIdle
    /\ ResponseIdle
    /\ SchedulerIdle
    /\ ChatIdle

\* A request calls get_or_create_private_room(user1, user2): the atomic
\* block is entered.
CallPrivateRoom(c) ==
    /\ chat_call[c].pc \in {"idle", "returned"}
    /\ chat_count < MaxChatCalls
    /\ \E user1, user2 \in Users :
         /\ user1 # user2
         /\ chat_call' = [chat_call EXCEPT ![c] =
                [pc |-> "filter", user1 |-> user1, user2 |-> user2,
                 room |-> NoRoom, created |-> FALSE, raised |-> ""]]
    /\ chat_count' = chat_count + 1
    /\ UNCHANGED chat_rooms
    /\ UNCHANGED not_chat_vars

\* The query for an existing room: it sees the rooms committed so far.  An
\* existing room is returned with created = False.
FilterRooms(c) ==
    /\ chat_call[c].pc = "filter"
    /\ LET existing == existing_room(chat_rooms, chat_call[c].user1,
                                     chat_call[c].user2)
       IN  chat_call' = [chat_call EXCEPT ![c] =
               IF existing # NoRoom
               THEN [@ EXCEPT !.pc = "returned", !.room = existing]
               ELSE [@ EXCEPT !.pc = "create"]]
    /\ UNCHANGED << chat_rooms, chat_count >>
    /\ UNCHANGED not_chat_vars

\* The room and its two memberships are created and the block commits; the
\* room is returned with created = True.
CreateRoom(c) ==
    /\ chat_call[c].pc = "create"
    /\ chat_rooms' = Append(chat_rooms, {chat_call[c].user1, chat_call[c].user2})
    /\ chat_call' = [chat_call EXCEPT ![c] =
           [@ EXCEPT !.pc = "returned", !.room = Len(chat_rooms) + 1,
                     !.created = TRUE]]
    /\ UNCHANGED chat_count
    /\ UNCHANGED not_chat_vars

\* On the sqlite3 backend a write meets the read lock of another open
\* block: the create raises OperationalError (database is locked) and the
\* block is rolled back.
CreateRoomRaises(c) ==
    /\ chat_call[c].pc = "create"
    /\ \E other \in Requests \ {c} : chat_call[other].pc = "create"
    /\ chat_call' = [chat_call EXCEPT ![c] =
           [@ EXCEPT !.pc = "returned", !.raised = "OperationalError"]]
    /\ UNCHANGED << chat_rooms, chat_count >>
    /\ UNCHANGED not_chat_vars

ChatNext ==
    \E c \in Requests :
        \/ CallPrivateRoom(c)
        \/ FilterRooms(c)
        \/ CreateRoom(c)
        \/ CreateRoomRaises(c)

ChatSpec == ChatInit /\ [][ChatNext]_vars

\* --------------------------------------------------- process_scheduled_runs
\* Two schedules, each active or not, with a next_run or none, never run.
SchedulerInit ==
    /\ OrchestratorIdle
    /\ ContextIdle
    /\ RequestIdle
    /\ SubstituteIdle
    /\ ResponseIdle
    /\ ChatIdle
    /\ schedules \in [{1, 2} -> [is_active : BOOLEAN,
                                 next_run : {NoTime} \cup 0..MaxTime,
                                 last_run : {NoTime},
                                 runs : {0}]]
    /\ now = 0

\* Time passes between two invocations.
Tick ==
    /\ now < MaxTime
    /\ now' = now + 1
    /\ UNCHANGED schedules
    /\ UNCHANGED not_scheduler_vars

\* One invocation of process_scheduled_runs: for every due schedule
\* run_collection_async.delay is called and, unless it raised, last_run is
\* saved (update_fields=['last_run']).
ProcessScheduledRuns ==
    /\ \A s \in DOMAIN schedules : schedules[s].runs < MaxRuns
    /\ LET due_schedules == {s \in DOMAIN schedules :
                               /\ schedules[s].is_active
                               /\ schedules[s].next_run # NoTime
                               /\ schedules[s].next_run <= now}
       IN  \E delayed \in SUBSET due_schedules :
             schedules' = [s \in DOMAIN schedules |->
                 IF s \in delayed
                 THEN [schedules[s] EXCEPT !.runs = @ + 1, !.last_run = now]
                 ELSE schedules[s]]
    /\ UNCHANGED now
    /\ UNCHANGED not_scheduler_vars

SchedulerNext ==
    \/ Tick
    \/ ProcessScheduledRuns

SchedulerSpec == SchedulerInit /\ [][SchedulerNext]_vars

\* =================================================================== claims

\* The endpoints reachable from endpoint i along depends_on references in at
\* most k steps (i itself excluded unless a cycle leads back to it).
RECURSIVE DependencyChain(_, _)
DependencyChain(i, k) ==
    IF k = 0 \/ i \notin 1..Len(endpoints) \/ endpoints[i].depends_on_id = NoDependency
    THEN {}
    ELSE {endpoints[i].depends_on_id}
         \cup DependencyChain(endpoints[i].depends_on_id, k - 1)

\* The endpoint the loop of execute_collection takes next.
NextEndpoint == endpoints[idx + 1]

\* C1: in execute_collection an endpoint that declares a dependency is
\* skipped (no HTTP attempt, one result row with status skipped) if and only
\* if, when the loop reaches it, the dependency is in the failed-set or is
\* not in the succeeded-set; an endpoint without a dependency, or whose
\* dependency has succeeded, is executed.  A dependency later in sort order
\* than its dependent causes a skip, never an error.  (The row is recorded
\* unless the insert itself raises.)
C1_SkipIffDependencyNotSucceeded ==
    [][ (pc = "loop" /\ idx < Len(endpoints) /\ idx' = idx + 1) =>
          LET dep == NextEndpoint.depends_on_id
              must_skip == /\ dep # NoDependency
                           /\ (dep \in failed_endpoints \/ dep \notin completed_endpoints)
          IN  /\ must_skip =>
                   /\ pc' # "attempt"
                   /\ executed' = executed
                   /\ NextEndpoint.id \notin executed'
                   /\ \/ /\ pc' = "loop"
                         /\ Len(results') = Len(results) + 1
                         /\ results'[Len(results')].status = SKIPPED
                         /\ results'[Len(results')].api_endpoint = NextEndpoint.id
                         /\ raised' = ""
                      \/ raised' = "DatabaseError"
              /\ ~must_skip => (pc' = "attempt" /\ results' = results)
              /\ dep > NextEndpoint.id => pc' # "attempt"
      ]_vars

\* C1 witness: a finished run in which endpoint 1 was skipped because its
\* dependency (endpoint 2) comes later, endpoint 2 succeeded, and endpoint 3,
\* which depends on endpoint 2, was executed.
C1_Witness ==
    /\ pc = "done"
    /\ path = "collection"
    /\ Len(endpoints) = 3
    /\ endpoints[1].depends_on_id = 2
    /\ endpoints[3].depends_on_id = 2
    /\ Len(results) = 3
    /\ results[1].status = SKIPPED
    /\ results[2].status = SUCCESS
    /\ 1 \notin executed
    /\ 3 \in executed

DerivedStatus(succeeded, failed) ==
    CASE failed = 0 -> COMPLETED
      [] failed # 0 /\ succeeded = 0 -> RUN_FAILED
      [] OTHER -> PARTIALLY_FAILED

\* A run object with the given counters, as handed to mark_completed.
RunWithCounts(total, succeeded, failed) ==
    [NewRun(total) EXCEPT !.status = RUNNING, !.successful_count = succeeded,
                          !.failed_count = failed,
                          !.skipped_count = total - succeeded - failed]

\* C3: the terminal status of a run is a function of its counters:
\* completed if failed_count = 0, otherwise failed if successful_count = 0,
\* otherwise partial_failure.  Whenever the run object of either path
\* (execute_collection, single-endpoint run) holds a terminal status it is
\* the one derived from the object's own counters, which in a collection run
\* are the counters the loop accumulated; and mark_completed gives
\* (5,5,0) -> completed, (5,0,5) -> failed, (5,3,2) -> partial_failure.
C3_StatusDerivedFromCounters ==
    /\ execution_run.status \in TerminalStatuses =>
         /\ execution_run.status =
              DerivedStatus(execution_run.successful_count, execution_run.failed_count)
         /\ pc = "done"
         /\ path = "collection" =>
              /\ execution_run.successful_count = successful_count
              /\ execution_run.failed_count = failed_count
    /\ pc = "done" => execution_run.status \in TerminalStatuses
    /\ execution_run.status \in {"absent", PENDING, RUNNING} \cup TerminalStatuses
    /\ mark_completed(RunWithCounts(5, 5, 0)).status = COMPLETED
    /\ mark_completed(RunWithCounts(5, 0, 5)).status = RUN_FAILED
    /\ mark_completed(RunWithCounts(5, 3, 2)).status = PARTIALLY_FAILED

\* C3 witness: a collection run finalized as partial_failure with one
\* success and one failure counted.
C3_Witness ==
    /\ pc = "done"
    /\ path = "collection"
    /\ execution_run.status = PARTIALLY_FAILED
    /\ execution_run.successful_count = 1
    /\ execution_run.failed_count = 1

\* C4: execute_with_retry makes at most retry_count + 1 attempts.  When it
\* returns timeout or error it has made exactly retry_count + 1 attempts and
\* the result carries retry_attempt = retry_count; when it returns success
\* after k attempts the result carries retry_attempt = k - 1.  The sleeps
\* lie between consecutive attempts: none after the returned attempt.
C4_RetryBound ==
    (idx >= 1 /\ pc \in {"attempt", "sleep", "returned"}) =>
        /\ attempts <= endpoint.retry_count + 1
        /\ pc = "attempt" => (sleeps = attempts /\ attempt = attempts)
        /\ pc \in {"sleep", "returned"} =>
             /\ sleeps = attempts - 1
             /\ result_data.retry_attempt = attempts - 1
        /\ pc = "sleep" => attempts <= endpoint.retry_count
        /\ (pc = "returned" /\ result_data.status \in {TIMEOUT, ERROR}) =>
             /\ attempts = endpoint.retry_count + 1
             /\ result_data.retry_attempt = endpoint.retry_count
        /\ (pc = "returned" /\ result_data.status = SUCCESS) =>
             result_data.retry_attempt = attempts - 1

\* C4 witness: retry_count = 2 and every attempt timed out: three attempts,
\* two sleeps, outcome timeout with retry_attempt = 2.
C4_Witness ==
    /\ pc = "returned"
    /\ endpoint.retry_count = 2
    /\ attempts = 3
    /\ sleeps = 2
    /\ result_data.status = TIMEOUT
    /\ result_data.retry_attempt = 2

\* C5: execute_with_retry goes on to another attempt only after an attempt
\* that ended in timeout or error; an attempt that ended in success or
\* failed is returned at once, whatever retry_count is.
C5_RetryOnlyOnTimeoutOrError ==
    [][ pc = "attempt" =>
          /\ pc' = "sleep" => result_data'.status \in {TIMEOUT, ERROR}
          /\ result_data'.status \in {SUCCESS, FAILED} =>
               /\ pc' = "returned"
               /\ attempt' = attempt
               /\ result_data'.retry_attempt = attempt
      ]_vars

\* C5 witness: an endpoint with retry_count = 2 whose first attempt ended in
\* failed has returned after that single attempt.
C5_Witness ==
    /\ pc = "returned"
    /\ endpoint.retry_count = 2
    /\ result_data.status = FAILED
    /\ attempts = 1
    /\ sleeps = 0

\* The verdict of all assertions of an endpoint on a completed exchange.
AssertionsHold(ep, reply) ==
    /\ ep.expected_status_code # NoExpectedStatus =>
         reply.status_code = ep.expected_status_code
    /\ reply.contains_ok

\* C6: the outcome of one attempt.  A timeout gives timeout / "Timeout"; a
\* connection failure gives error / "ConnectionError"; any other exception
\* gives error with the exception's type name; an exchange completed
\* without exception gives failed when the status code is >= 400, whatever
\* the assertion verdict, and below 400 gives failed if an assertion fails
\* and success otherwise.
C6_OutcomeClassification ==
    pc \in {"sleep", "returned"} =>
        LET e == last_reply.exc IN
        /\ result_data.status \in {SUCCESS, FAILED, TIMEOUT, ERROR}
        /\ e.isTimeout =>
             (result_data.status = TIMEOUT /\ result_data.error_type = "Timeout")
        /\ (e.isConnection /\ ~e.isTimeout) =>
             (result_data.status = ERROR /\ result_data.error_type = "ConnectionError")
        /\ (e # NoException /\ ~e.isConnection /\ ~e.isTimeout) =>
             (result_data.status = ERROR /\ result_data.error_type = e.name)
        /\ (e = NoException /\ last_reply.status_code >= 400) =>
             result_data.status = FAILED
        /\ (e = NoException /\ last_reply.status_code < 400) =>
             result_data.status =
                 IF AssertionsHold(endpoint, last_reply) THEN SUCCESS ELSE FAILED
        /\ e = NoException =>
             result_data.assertions_passed = AssertionsHold(endpoint, last_reply)

\* C6 witness: a 404 answer to an endpoint that expects 404: the assertions
\* pass and the outcome is failed.
C6_Witness ==
    /\ pc = "returned"
    /\ last_reply.exc = NoException
    /\ last_reply.status_code = 404
    /\ endpoint.expected_status_code = 404
    /\ result_data.assertions_passed
    /\ result_data.status = FAILED

\* The number of rows of the run with one of the given statuses.
RowCount(statuses) ==
    Cardinality({i \in 1..Len(results) : results[i].status \in statuses})

C8_InterruptedRunFinalized ==
    /\ [][ \A i \in 1..Len(results) :
              (i <= Len(results') /\ results'[i] = results[i]) ]_vars
    /\ [][ pc = "except" =>
              (pc' = "finally" /\ results' = results) ]_vars
    /\ [][ pc = "finally" =>
              (pc' = "done" /\ execution_run'.status \in TerminalStatuses) ]_vars
    /\ []( execution_run.status \in TerminalStatuses =>
             /\ execution_run.successful_count + execution_run.failed_count
                  + execution_run.skipped_count = execution_run.total_apis
             /\ path = "collection" =>
                  /\ execution_run.total_apis = Len(endpoints)
                  /\ execution_run.successful_count = RowCount({SUCCESS})
                  /\ execution_run.failed_count = RowCount({FAILED, TIMEOUT, ERROR})
                  /\ execution_run.skipped_count =
                       Len(endpoints) - RowCount({SUCCESS, FAILED, TIMEOUT, ERROR}) )

\* C8 witness: a run of three endpoints interrupted after the first one was
\* recorded as failed: finalized with the first row kept and the two
\* endpoints without a row counted as skipped.
C8_Witness ==
    /\ pc = "done"
    /\ path = "collection"
    /\ logged_error = "DatabaseError"
    /\ Len(endpoints) = 3
    /\ Len(results) = 1
    /\ results[1].status = FAILED
    /\ execution_run.failed_count = 1
    /\ execution_run.skipped_count = 2
    /\ execution_run.status = RUN_FAILED

\* C9: whenever execute_collection returns, the run has a terminal status
\* and the number of its result rows equals total_apis, also when the loop
\* was interrupted by an exception.
C9_FullResultList ==
    (pc = "done" /\ path = "collection") =>
        /\ execution_run.status \in TerminalStatuses
        /\ Len(results) = execution_run.total_apis

\* C10: after execute_collection returns, the stored run record carries the
\* counters the orchestrator accumulated and the status derived from them.
C10_StoredCountsAndStatus ==
    (pc = "done" /\ path = "collection") =>
        /\ db_run.successful_count = successful_count
        /\ db_run.failed_count = failed_count
        /\ db_run.skipped_count = skipped_count
        /\ db_run.status = DerivedStatus(successful_count, failed_count)

\* Every endpoint table is listed by get_ordered_endpoints as its active
\* rows, each once, in ascending sort_order and, among rows of equal
\* sort_order, in creation order.
OrderedBySortOrderThenCreation ==
    \A rows \in EndpointTables :
        LET l == get_ordered_endpoints(rows) IN
        /\ Len(l) = Cardinality({r \in rows : r.is_active})
        /\ {l[i] : i \in 1..Len(l)} = {r \in rows : r.is_active}
        /\ \A i, j \in 1..Len(l) :
             i < j => \/ l[i].sort_order < l[j].sort_order
                      \/ /\ l[i].sort_order = l[j].sort_order
                         /\ l[i].created_at < l[j].created_at

ExpectedResolution(r, n) ==
    IF n \in DOMAIN call_extracted[r] THEN call_extracted[r][n]
    ELSE IF n \in DOMAIN call_input[r].environment_overrides
         THEN call_input[r].environment_overrides[n]
    ELSE IF n \in DOMAIN call_input[r].environment_variables
         THEN call_input[r].environment_variables[n]
    ELSE Placeholder(n)

\* C12: the variables an endpoint extracts are visible to the endpoints
\* after it in the same run.  When the request of an endpoint is built,
\* the placeholder of every name resolves to the non-null value most
\* recently extracted for that name by an earlier endpoint of the run (the
\* last writer), whatever the environment holds for the name, and to the
\* environment's value only while no endpoint has extracted the name; an
\* extraction that finds null leaves the earlier value in place.
C12_ExtractedVisibleToLater ==
    /\ [](\A r \in Runs : call_pc[r] = "respond" =>
            \A n \in Names : call_resolved[r][n] = ExpectedResolution(r, n))
    /\ [][ \A r \in Runs : \A n \in Names :
             (call_pc[r] = "respond" /\ call_pc'[r] # "respond") =>
                 LET i == call_idx[r] + 1
                     ctx == context'[r].extracted_variables
                     before == context[r].extracted_variables
                 IN  \/ n \in DOMAIN ctx /\ ctx[n] = ResponseValue(r, i)
                     \/ /\ n \in DOMAIN ctx <=> n \in DOMAIN before
                        /\ n \in DOMAIN before => ctx[n] = before[n] ]_vars

\* C12 witness: the third endpoint of call 1 is built with {{token}}
\* resolved to the value the second endpoint extracted, the first endpoint
\* having extracted another value and the environment holding a third.
C12_Witness ==
    /\ call_pc[1] = "respond"
    /\ call_idx[1] = 2
    /\ "token" \in DOMAIN call_input[1].environment_variables
    /\ call_resolved[1]["token"] = ResponseValue(1, 2)
    /\ call_resolved[1]["id"] = ResponseValue(1, 1)

\* The values that come from call r: those of its collection's environment,
\* of its overrides and of the responses to its endpoints.
ValuesOfCall(r) ==
    { call_input[r].environment_variables[k] :
          k \in DOMAIN call_input[r].environment_variables }
    \cup { call_input[r].environment_overrides[k] :
          k \in DOMAIN call_input[r].environment_overrides }
    \cup { ResponseValue(r, i) : i \in 1..MaxCallEndpoints }

\* C15: two calls of execute_collection on the one api_executor, interleaved
\* in any way, do not interfere through the variable context.  The context
\* a call holds has the call's own environment (the collection's variables
\* with the call's overrides) and exactly the variables the call's own
\* endpoints extracted; a step of one call changes neither the context nor
\* the position of the other; no placeholder of a call resolves to a value
\* of the other call; and the result rows of a run are those of the
\* endpoints the run has processed, one each.
C15_NoInterferenceBetweenRuns ==
    /\ [](\A r \in Runs : call_pc[r] # "start" =>
            LET ctx == context[context_slot(r)] IN
            /\ ctx.environment = update(call_input[r].environment_variables,
                                        call_input[r].environment_overrides)
            /\ ctx.extracted_variables = call_extracted[r])
    /\ [](\A r \in Runs : call_pc[r] = "respond" =>
            \A n \in Names : \A q \in Runs \ {r} :
                call_resolved[r][n] \notin ValuesOfCall(q))
    /\ [][ \A r \in Runs :
             (call_pc'[r] = call_pc[r] /\ call_pc[r] # "start") =>
                 /\ context'[context_slot(r)] = context[context_slot(r)]
                 /\ call_idx'[r] = call_idx[r]
                 /\ call_resolved'[r] = call_resolved[r] ]_vars
    /\ [](\A r \in Runs :
            { row.api_endpoint : row \in { w \in result_rows : w.execution_run = r } }
                = { << r, i >> : i \in 1..call_idx[r] })
    /\ [](Cardinality(result_rows) = call_idx[1] + call_idx[2])

\* C15 witness: the two calls are interleaved, each building its second
\* endpoint with {{token}} resolved to the value its own first endpoint
\* extracted, and call 2 started after call 1 had extracted.
C15_Witness ==
    /\ call_pc[1] = "respond"
    /\ call_pc[2] = "respond"
    /\ call_idx[1] = 1
    /\ call_idx[2] = 1
    /\ call_resolved[1]["token"] = ResponseValue(1, 1)
    /\ call_resolved[2]["token"] = ResponseValue(2, 1)
    /\ session = "Session"

\* C13: the lifecycle of a run of execute_collection.  The run is created
\* in status pending; it is running, with its start time stored, before the
\* first endpoint is processed; whenever the call on a non-empty collection
\* has ended (every HTTP attempt having returned or timed out), the stored
\* run has a terminal status and an end time, so that no run is left in
\* pending or running; and a terminal status does not change again.
C13_RunLifecycle ==
    /\ [][ (path = "collection" /\ db_run = NoRun /\ db_run' # NoRun) =>
             (db_run'.status = PENDING /\ execution_run'.status = PENDING) ]_vars
    /\ []( (path = "collection" /\ (idx >= 1 \/ pc = "loop")) =>
             /\ db_run.started_at
             /\ db_run.status \in {RUNNING} \cup TerminalStatuses )
    /\ []( (path = "collection" /\ endpoints # << >>
            /\ pc \in {"done", "propagated"}) =>
             /\ db_run.status \in TerminalStatuses
             /\ db_run.completed_at )
    /\ [][ db_run.status \in TerminalStatuses =>
             db_run'.status = db_run.status ]_vars

\* C14: when the run had a credential and used it for at least one HTTP
\* attempt, a finished execute_collection has marked the credential as used
\* exactly once, however many endpoints and attempts there were.
C14_CredentialMarkedOncePerRun ==
    (pc = "done" /\ path = "collection" /\ credential /\ executed # {}) =>
        mark_used_calls = 1

\* The sensitive header names the masking rule lists.
ListedSensitiveHeaders ==
    {"authorization", "x-api-key", "api-key", "token", "x-auth-token",
     "cookie", "set-cookie", "x-access-token", "x-secret"}

\* C16: header masking is total.  In the result record of a call, for every
\* outcome, the request headers are those of the request with the value
\* ***MASKED*** for exactly the keys that are a case variant of
\* authorization, x-api-key, api-key, token, x-auth-token, cookie,
\* set-cookie, x-access-token or x-secret, and with every other key and
\* value as sent.
C16_HeaderMaskingTotal ==
    (req_pc \in {"sent", "returned"} /\ request # NoRequest) =>
        /\ DOMAIN result.request_headers = DOMAIN request.headers
        /\ \A key \in DOMAIN request.headers :
             result.request_headers[key] =
                 IF lower(key) \in ListedSensitiveHeaders THEN MASKED
                 ELSE request.headers[key]

\* C17: the decrypted secret of the credential is not persisted.  For every
\* kind of credential and every configured header or key name, no field of
\* the result record of the call (request URL, request headers, request
\* body, error message) contains secret material.
C17_SecretNeverPersisted ==
    /\ \A k \in DOMAIN result.request_url : ~ContainsSecret(result.request_url[k])
    /\ \A k \in DOMAIN result.request_headers :
         ~ContainsSecret(result.request_headers[k])
    /\ ~ContainsSecret(result.request_body)
    /\ ~ContainsSecret(result.error_message)

\* C18: a decryption failure is not fatal.  When get_credentials raises,
\* the request is built and sent with the endpoint's own headers (and the
\* default Content-Type) and query parameters and nothing of the credential,
\* and the outcome of the call is the one its reply gives: timeout, error,
\* failed for a status code of 400 or more or a failed assertion, success
\* otherwise.
C18_DecryptFailureNonFatal ==
    (req_credential # NoCredential /\ ~req_credential.decrypts
     /\ req_pc \in {"sent", "returned"}) =>
        /\ request.url = req_endpoint.query_params
        /\ \A key \in DOMAIN req_endpoint.headers :
             key \in DOMAIN request.headers
             /\ request.headers[key] = req_endpoint.headers[key]
        /\ DOMAIN request.headers \subseteq
               DOMAIN req_endpoint.headers \cup {"Content-Type"}
        /\ \A key \in DOMAIN request.headers : ~ContainsSecret(request.headers[key])
        /\ req_pc = "returned" =>
             LET e == request.reply.exc IN
             /\ result.error_type # "InvalidToken"
             /\ result.status =
                  IF e = NoException
                  THEN IF request.reply.status_code >= 400
                          \/ ~request.reply.contains_ok
                       THEN FAILED ELSE SUCCESS
                  ELSE IF e.isTimeout THEN TIMEOUT ELSE ERROR

\* C18 witness: a call with a bearer credential that does not decrypt has
\* sent its request without an Authorization header and ended in success.
C18_Witness ==
    /\ req_pc = "returned"
    /\ req_credential # NoCredential
    /\ req_credential.auth_type = BEARER
    /\ ~req_credential.decrypts
    /\ "Authorization" \notin DOMAIN request.headers
    /\ request.reply.exc = NoException
    /\ request.reply.status_code = 200
    /\ result.status = SUCCESS

\* A piece that is a placeholder, and the name it carries.
IsPlaceholder(piece) == Len(piece) > 1

NameOf(piece) == join(SubSeq(piece, 3, Len(piece) - 2))

\* A text written from placeholders and from characters other than braces:
\* its placeholders are its pieces of more than one character.
WellFormed(pieces) ==
    \A n \in DOMAIN pieces : pieces[n] \notin {<< "{" >>, << "}" >>}

\* The variable of a name: the extracted-variables map first, then the
\* environment map.
LookedUp(ctx, name) ==
    IF name \in DOMAIN ctx.extracted_variables THEN ctx.extracted_variables[name]
    ELSE ctx.environment[name]

Present(ctx, name) ==
    name \in DOMAIN ctx.extracted_variables \cup DOMAIN ctx.environment

\* str(value): of None it is the text None, of a string the string.
StringForm(value) == IF value = None THEN "None" ELSE value

\* The text in which every placeholder whose name is in one of the maps is
\* replaced by the string form of its variable.
PresentReplaced(pieces, ctx) ==
    text_of([n \in DOMAIN pieces |->
               IF IsPlaceholder(pieces[n]) /\ Present(ctx, NameOf(pieces[n]))
               THEN << StringForm(LookedUp(ctx, NameOf(pieces[n]))) >>
               ELSE pieces[n]])

\* The text in which every placeholder whose variable is there and not null
\* is replaced by the string form of its variable.
NonNullReplaced(pieces, ctx) ==
    text_of([n \in DOMAIN pieces |->
               IF /\ IsPlaceholder(pieces[n])
                  /\ Present(ctx, NameOf(pieces[n]))
                  /\ LookedUp(ctx, NameOf(pieces[n])) # None
               THEN << StringForm(LookedUp(ctx, NameOf(pieces[n]))) >>
               ELSE pieces[n]])

\* C19 (as stated): substitute_variables replaces every placeholder whose
\* name is in the extracted-variables map or in the environment map by the
\* string form of the variable, looked up in that order, leaves the
\* placeholders whose name is in neither map as they are, and leaves the
\* text outside the placeholders unchanged.
C19_PresentPlaceholdersReplaced ==
    sub_pc \in {"url", "done"} /\ WellFormed(sub_pieces)
        => sub_url = PresentReplaced(sub_pieces, sub_context)

\* C19 (amended): substitute_variables replaces every placeholder whose
\* variable, looked up in the extracted-variables map and then in the
\* environment map, is there and not null, by the string form of the
\* variable; a placeholder whose name is in neither map or whose variable is
\* null stays in the text, and so does all text outside the placeholders.
\* A text is returned as it is when no variable of the context has a value.
C19_NonNullPlaceholdersReplaced ==
    sub_pc \in {"url", "done"} =>
        /\ WellFormed(sub_pieces)
              => sub_url = NonNullReplaced(sub_pieces, sub_context)
        /\ (\A name \in TextNames :
                Present(sub_context, name) => LookedUp(sub_context, name) = None)
              => sub_url = text_of(sub_pieces)

\* A text with three placeholders was substituted: two were replaced, the
\* one whose variable is null stayed.
C19_Witness ==
    /\ sub_pc = "url"
    /\ Len(sub_pieces) = 3
    /\ \A n \in DOMAIN sub_pieces : IsPlaceholder(sub_pieces[n])
    /\ \E n \in DOMAIN sub_pieces :
          /\ Present(sub_context, NameOf(sub_pieces[n]))
          /\ LookedUp(sub_context, NameOf(sub_pieces[n])) = None
    /\ Len(sub_url) = 7

\* The image of a JSON value in which every string leaf, at any depth, is
\* the substitute_variables image of the leaf.
RECURSIVE ImageOfValue(_, _)
ImageOfValue(value, ctx) ==
    IF type(value) = "str" THEN Str(substitute_variables(the(value), ctx))
    ELSE IF type(value) = "dict"
    THEN Dict([k \in DOMAIN the(value) |-> ImageOfValue(the(value)[k], ctx)])
    ELSE IF type(value) = "list"
    THEN List([n \in DOMAIN the(value) |-> ImageOfValue(the(value)[n], ctx)])
    ELSE value

\* C20: in the result of substitute_in_dict every string leaf at any
\* nesting depth (in nested maps, in lists, in maps or lists nested in
\* lists) is the substitute_variables image of the input leaf, every other
\* leaf is the input leaf, and shape and keys are those of the input.
C20_EveryStringLeafSubstituted ==
    sub_pc = "done" =>
        sub_params =
            [key \in DOMAIN sub_data |-> ImageOfValue(sub_data[key], sub_context)]

\* The value the traversal rules give: a bare segment descends into a map
\* by key; a segment name[n] descends into key name of a map and then to
\* element n of the sequence found there ([n] alone: element n of the
\* current value); anything else is null.
RECURSIVE Traversed(_, _)
Traversed(current, parts) ==
    IF parts = << >> THEN current
    ELSE
    LET part == Head(parts)
        open == IF \E i \in DOMAIN part : part[i] = "["
                THEN CHOOSE i \in DOMAIN part : part[i] = "[" ELSE 0
        name == join(SubSeq(part, 1, open - 1))
        n == int(SubSeq(part, open + 1, Len(part) - 1))
        seq == IF name = "" THEN current
               ELSE IF type(current) = "dict" /\ name \in DOMAIN the(current)
               THEN the(current)[name]
               ELSE Null
    IN  IF open = 0
        THEN IF type(current) = "dict" /\ join(part) \in DOMAIN the(current)
             THEN Traversed(the(current)[join(part)], Tail(parts))
             ELSE Null
        ELSE IF /\ n.raised = ""
                /\ type(seq) = "list"
                /\ n.value \in 0..(Len(the(seq)) - 1)
        THEN Traversed(the(seq)[n.value + 1], Tail(parts))
        ELSE Null

\* A response was received and its variables were extracted, or the
\* extraction raised.
Extracted ==
    /\ resp_pc \in {"validate", "returned"}
    /\ resp_input.reply.exc = ""

\* C21: extract_json_path follows the traversal rules for every data value
\* and every dotted path: it returns the value the rules lead to, and null
\* as soon as a segment meets a value that is not a map (bare or named
\* segment) or not a sequence long enough.
C21_TraversalRules ==
    Extracted /\ resp_input.endpoint.extract_variables["token"] # << >> =>
        extract_json_path(resp_input.reply.data,
                          resp_input.endpoint.extract_variables["token"])
          = Returned(Traversed(resp_input.reply.data,
                               resp_input.endpoint.extract_variables["token"]))

\* C22: extract_json_path never raises: for every data value and every
\* path it returns a value or null.
C22_ExtractNeverRaises ==
    Extracted =>
        extract_json_path(resp_input.reply.data,
                          resp_input.endpoint.extract_variables["token"]).raised = ""

\* The records validate_response is to return for the entries of
\* expected_response_contains, in order: their kind and their path.
RECURSIVE RecordsOf(_)
RecordsOf(entries) ==
    IF entries = << >> THEN << >>
    ELSE (IF type(Head(entries)) = "str"
          THEN << << "key_exists", the(Head(entries)) >> >>
          ELSE IF type(Head(entries)) = "dict"
          THEN [i \in DOMAIN the(Head(entries)) |->
                  << "response_contains", the(Head(entries))[i][1] >>]
          ELSE << >>)
         \o RecordsOf(Tail(entries))

\* C23: validate_response returns one record for the status check when
\* expected_status_code is set, then one record per map pair or bare string
\* entry of expected_response_contains in insertion order, and all_passed
\* is the conjunction of the verdicts of these records.
C23_AllPassedIsConjunction ==
    /\ Extracted /\ resp_pc = "returned"
    /\ extract_json_path(resp_input.reply.data,
                         resp_input.endpoint.extract_variables["token"]).raised = ""
    =>
        LET ep == resp_input.endpoint
            validated == validate_response_details(ep, resp_input.reply.status_code,
                                                   resp_input.reply.data)
            expected ==
                (IF ep.expected_status_code # NoExpectedStatus
                 THEN << << "status_code", << >> >> >> ELSE << >>)
                \o RecordsOf(ep.expected_response_contains)
        IN  /\ validated.raised = ""
            /\ resp_result.assertion_details = validated.value.assertions
            /\ [i \in DOMAIN resp_result.assertion_details |->
                  << resp_result.assertion_details[i].type,
                     resp_result.assertion_details[i].path >>] = expected
            /\ resp_result.assertions_passed
                 = (\A i \in DOMAIN resp_result.assertion_details :
                       resp_result.assertion_details[i].passed)

\* C24: a response body of more than 10240 characters is stored as its
\* first 10240 characters followed by the truncation marker, a body of at
\* most 10240 characters is stored unchanged, and response_size_bytes is the
\* size of the response as received.
C24_BodyTruncatedAtCap ==
    resp_pc # "sent" /\ resp_input.reply.exc = "" =>
        /\ resp_input.reply.text.chars > 10240 =>
              resp_result.response_body
                = [chars |-> 10240, suffix |-> "\n... [TRUNCATED]"]
        /\ resp_input.reply.text.chars <= 10240 =>
              resp_result.response_body = resp_input.reply.text
        /\ resp_result.response_size_bytes = resp_input.reply.size

\* A body of 10241 characters was received and stored cut, with its size.
C24_Witness ==
    /\ resp_pc = "returned"
    /\ resp_input.reply.text.chars = 10241
    /\ resp_result.response_body.chars = 10240
    /\ resp_result.response_body.suffix # ""
    /\ resp_result.response_size_bytes = 2 * 10240

\* The context after the extraction of an exchange: the value found at the
\* path of each variable is set when it is not null.
ContextAfterExchange ==
    LET found == extract_json_path(resp_input.reply.data,
                                   resp_input.endpoint.extract_variables["token"]).value
    IN  IF found = Null THEN resp_input.context
        ELSE [resp_input.context EXCEPT
                !.extracted_variables = update(@, [k \in {"token"} |-> found])]

\* C29: the variables of a completed exchange are in the context before the
\* outcome is classified, and stay there whether the outcome is success or
\* failed (status >= 400 or an assertion mismatch); an attempt that ends in
\* a timeout or a connection error leaves the context as it was.
C29_ExtractionBeforeClassification ==
    /\ resp_pc = "validate" => resp_context = ContextAfterExchange
    /\ resp_pc = "returned" /\ resp_result.status \in {SUCCESS, FAILED}
          => resp_context = ContextAfterExchange
    /\ resp_pc = "returned" /\ resp_result.error_type \in {"Timeout", "ConnectionError"}
          => resp_context = resp_input.context

\* A 404 response with a failed assertion left its value in the context, in
\* place of the value extracted earlier.
C29_Witness ==
    /\ resp_pc = "returned"
    /\ resp_result.status = FAILED
    /\ resp_input.reply.status_code = 404
    /\ ~resp_result.assertions_passed
    /\ "token" \in DOMAIN resp_input.context.extracted_variables
    /\ resp_context.extracted_variables["token"] = Number(1)

\* The keys of a dict of headers that name the same header as key.
SameHeader(headers, key) == {k \in DOMAIN headers : lower(k) = lower(key)}

\* C25: the headers of the request are the endpoint's headers, the default
\* Content-Type of the body kind (json: application/json,
\* x-www-form-urlencoded: application/x-www-form-urlencoded, none for the
\* other kinds) only when the endpoint's headers carry no Content-Type, and
\* the auth headers laid over them: a header the endpoint and the
\* credential both set is carried with the auth value only.
C25_HeadersBuilt ==
    req_pc \in {"sent", "returned"} /\ request # NoRequest =>
        LET built == request.headers
            configured == req_endpoint.headers
            auth_headers == build_auth_headers(req_credential).value
            default ==
                IF req_endpoint.body_type = "json"
                THEN << "application/json" >>
                ELSE IF req_endpoint.body_type = "x-www-form-urlencoded"
                THEN << "application/x-www-form-urlencoded" >>
                ELSE << >>
        IN  /\ \A k \in DOMAIN auth_headers :
                  /\ k \in DOMAIN built /\ built[k] = auth_headers[k]
                  /\ SameHeader(built, k) = {k}
            /\ \A k \in DOMAIN configured :
                  SameHeader(auth_headers, k) = {}
                      => k \in DOMAIN built /\ built[k] = configured[k]
            /\ SameHeader(configured, "Content-Type") # {}
                  => SameHeader(built, "Content-Type")
                        = SameHeader(configured, "Content-Type")
            /\ SameHeader(configured, "Content-Type") = {}
                  => IF default = << >>
                     THEN SameHeader(built, "Content-Type") = {}
                     ELSE /\ SameHeader(built, "Content-Type") = {"Content-Type"}
                          /\ built["Content-Type"] = default
            /\ DOMAIN built \subseteq
                  DOMAIN configured \cup DOMAIN auth_headers \cup {"Content-Type"}

\* C27: loop invariant of execute_collection.  After each endpoint is
\* processed the succeeded-set and the failed-set are disjoint, each
\* counter is the size of its set, the three counters add up to the number
\* of endpoints processed, and an endpoint is in the succeeded-set exactly
\* when its final outcome is success and in the failed-set exactly when it
\* is failed, timeout or error.
C27_LoopInvariant ==
    pc = "loop" /\ path = "collection" =>
        /\ completed_endpoints \cap failed_endpoints = {}
        /\ successful_count = Cardinality(completed_endpoints)
        /\ failed_count = Cardinality(failed_endpoints)
        /\ successful_count + failed_count + skipped_count = idx
        /\ Len(results) = idx
        /\ \A i \in DOMAIN results :
              /\ results[i].api_endpoint \in completed_endpoints
                    <=> results[i].status = SUCCESS
              /\ results[i].api_endpoint \in failed_endpoints
                    <=> results[i].status \in {FAILED, TIMEOUT, ERROR}

\* Three endpoints were processed: one succeeded, one did not, one was
\* skipped.
C27_Witness ==
    /\ pc = "loop" /\ path = "collection"
    /\ idx = 3
    /\ successful_count = 1 /\ failed_count = 1 /\ skipped_count = 1
    /\ \E i \in DOMAIN results : results[i].status = TIMEOUT

\* C28: skipping an endpoint adds it to neither set and leaves failed_count
\* as it is; an endpoint that depends on a skipped endpoint is skipped with
\* the reason 'Skipped: dependency not executed'; a run in which every
\* endpoint is skipped finalizes as completed.
C28_SkippedIsNeitherSucceededNorFailed ==
    /\ [][pc = "loop" /\ skipped_count' = skipped_count + 1
            => /\ completed_endpoints' = completed_endpoints
               /\ failed_endpoints' = failed_endpoints
               /\ failed_count' = failed_count
               /\ successful_count' = successful_count]_vars
    /\ [](\A i, j \in DOMAIN results :
              /\ results[j].status = SKIPPED
              /\ endpoints[results[i].api_endpoint].depends_on_id
                    = results[j].api_endpoint
              => /\ results[i].status = SKIPPED
                 /\ results[i].error_message = "Skipped: dependency not executed")
    /\ [](/\ pc = "done" /\ path = "collection"
          /\ Len(results) = Len(endpoints)
          /\ \A i \in DOMAIN results : results[i].status = SKIPPED
          => execution_run.status = COMPLETED)

\* A run of three endpoints, the second depending on the first and the
\* first on the third, in which every endpoint was skipped.
C28_Witness ==
    /\ pc = "done" /\ path = "collection"
    /\ Len(endpoints) = 3 /\ Len(results) = 3
    /\ endpoints[2].depends_on_id = 1
    /\ \A i \in DOMAIN results :
          /\ results[i].status = SKIPPED
          /\ results[i].error_message = "Skipped: dependency not executed"
    /\ execution_run.status = COMPLETED
    /\ execution_run.skipped_count = 3

\* C26: after any sequence of get_or_create_private_room calls, interleaved
\* or not and in either argument order, at most one private room has a
\* given pair of users as participants; the call that finds no room creates
\* it and returns created = true, every other call returns that room with
\* created = false.
C26_OnePrivateRoomPerPair ==
    /\ \A r, q \in DOMAIN chat_rooms : chat_rooms[r] = chat_rooms[q] => r = q
    /\ \A c \in Requests :
          (chat_call[c].pc = "returned" /\ chat_call[c].raised = "") =>
              /\ chat_call[c].room \in DOMAIN chat_rooms
              /\ chat_rooms[chat_call[c].room]
                    = {chat_call[c].user1, chat_call[c].user2}

\* C30: an invocation of process_scheduled_runs triggers one run for each
\* active schedule whose next_run is at or before now, sets its last_run to
\* now and clears its next_run, so that a later invocation does not trigger
\* the schedule again.
C30_TriggeredOncePerNextRun ==
    /\ [][\A s \in DOMAIN schedules :
            schedules'[s].runs # schedules[s].runs =>
                /\ schedules[s].is_active
                /\ schedules[s].next_run # NoTime /\ schedules[s].next_run <= now
                /\ schedules'[s].runs = schedules[s].runs + 1
                /\ schedules'[s].last_run = now
                /\ schedules'[s].next_run = NoTime]_vars
    /\ [](\A s \in DOMAIN schedules : schedules[s].runs <= 1)

====
